---- MODULE Spec2Model ----
(***************************************************************************)
(* A model of the effect system of quint: the unification kernel           *)
(* (effects/base.ts) and the effect inferrer (effects/inferrer.ts).        *)
(*                                                                         *)
(* Representation.                                                         *)
(*  - A quantified name is a sequence of atoms: the name "a" is <<"a">>    *)
(*    and name.join('#') of hashVariables is the concatenation of the      *)
(*    names, so "a#b" is <<"a", "b">>.                                     *)
(*  - An Either is [ok |-> TRUE, value |-> v] or [ok |-> FALSE, error |->  *)
(*    msgs], an error tree being kept as the sequence of its leaf          *)
(*    messages (the location strings are diagnostics only).                *)
(*  - A printed effect is kept as a structure of tokens instead of a       *)
(*    string; a sorted list of names is kept as the bag of the names.      *)
(***************************************************************************)
EXTENDS Integers, Sequences, FiniteSets, TLC

VARIABLES
  op,      \* unifier harness: the kernel function applied to the inputs
  ea, eb,  \* unifier harness: the two effects handed to unify / bindEffect
  va,      \* unifier harness: the variables handed to bindVariables / unifyVariables
  vb,      \* unifier harness: the second variables handed to unifyVariables
  bname,   \* unifier harness: the name handed to bindEffect / bindVariables
  phase,   \* unifier harness: "start" before the call, "done" after it
  ures,    \* unifier harness: the Either the call returned
  module,         \* inferrer: the module handed to inferEffects
  pc,             \* inferrer: the position of the traversal
  effects,        \* inferrer: this.effects, the schemes by expression id
  errors,         \* inferrer: this.errors, the error trees by expression id
  substitutions,  \* inferrer: this.substitutions
  fresh,          \* inferrer: the counter of this.freshVarGenerator
  location,       \* inferrer: this.location
  thrown,         \* inferrer: a callback has ended the run by an exception
  firstRun,       \* two runs: what the first inferrer returned, once it has
  lop,            \* evaluator: the lazy operator that is applied
  largs,          \* evaluator: its argument closures
  entry,          \* evaluator: the context when the operator was called
  context,        \* evaluator: the context, after the call once it is made
  lres,           \* evaluator: what the call returned
  lphase          \* evaluator: "start" before the call, "done" after it

uvars == <<op, ea, eb, va, vb, bname, phase, ures>>
ivars == <<module, pc, effects, errors, substitutions, fresh, location, thrown>>
rvars == <<firstRun>>
evars == <<lop, largs, entry, context, lres, lphase>>
allvars == <<uvars, ivars, rvars, evars>>

-----------------------------------------------------------------------------
(* Sequence helpers *)

RECURSIVE FoldLeft(_, _, _)
FoldLeft(F(_, _), acc, s) ==
  IF s = <<>> THEN acc ELSE FoldLeft(F, F(acc, Head(s)), Tail(s))

MapSeq(F(_), s) == [i \in 1..Len(s) |-> F(s[i])]

FlatMap(F(_), s) == FoldLeft(LAMBDA acc, x: acc \o F(x), <<>>, s)

Range(s) == {s[i] : i \in 1..Len(s)}

Contains(s, x) == \E i \in 1..Len(s): s[i] = x

Dedup(s) ==
  FoldLeft(LAMBDA acc, x: IF Contains(acc, x) THEN acc ELSE Append(acc, x), <<>>, s)

BagOfSeq(s) == [x \in Range(s) |-> Cardinality({i \in 1..Len(s): s[i] = x})]

\* a value computed once and named in the body F, as a `const` of the source
Let1(x, F(_)) == F(x)
Let2(x, y, F(_, _)) == F(x, y)

-----------------------------------------------------------------------------
(* Either *)

Right(v) == [ok |-> TRUE, value |-> v]
Left(msgs) == [ok |-> FALSE, error |-> msgs]

\* mergeInMany of @sweet-monads/either: every value, or every error
mergeInMany(rs) ==
  IF \A i \in 1..Len(rs): rs[i].ok
  THEN Right(MapSeq(LAMBDA r: r.value, rs))
  ELSE Left(FlatMap(LAMBDA r: IF r.ok THEN <<>> ELSE r.error, rs))

\* Either.chain: the continuation runs on a right, a left passes through
chain(r, F(_)) == IF r.ok THEN F(r.value) ELSE r

-----------------------------------------------------------------------------
(* The effect algebra: base.ts, types *)

ConcreteEffect(cs) == [kind |-> "concrete", components |-> cs]
ArrowEffect(ps, r) == [kind |-> "arrow", params |-> ps, result |-> r]
QuantifiedEffect(n) == [kind |-> "quantified", name |-> n]
EffectComponent(k, v) == [kind |-> k, variables |-> v]

ConcreteVariables(vs) == [kind |-> "concrete", vars |-> vs]
QuantifiedVariables(n) == [kind |-> "quantified", name |-> n]
UnionVariables(vs) == [kind |-> "union", variables |-> vs]
StateVariable(n, r) == [name |-> n, reference |-> r]

emptyVariables == ConcreteVariables(<<>>)

Binding(k, n, v) == [kind |-> k, name |-> n, value |-> v]

-----------------------------------------------------------------------------
(* Simplification: simplification.ts *)

RECURSIVE quantifiedIn(_)
quantifiedIn(v) ==
  CASE v.kind = "concrete" -> <<>>
    [] v.kind = "quantified" -> <<v.name>>
    [] v.kind = "union" -> FlatMap(quantifiedIn, v.variables)

RECURSIVE stateVariablesIn(_)
stateVariablesIn(v) ==
  CASE v.kind = "concrete" -> v.vars
    [] v.kind = "quantified" -> <<>>
    [] v.kind = "union" -> FlatMap(stateVariablesIn, v.variables)

\* two state variables are the same iff their names are
uniqueStateVariables(vs) ==
  FoldLeft(LAMBDA acc, x: IF \E i \in 1..Len(acc): acc[i].name = x.name
                          THEN acc ELSE Append(acc, x), <<>>, vs)

flattenUnions(v) ==
  IF v.kind # "union" THEN v
  ELSE Let2(MapSeq(QuantifiedVariables, Dedup(quantifiedIn(v))),
            uniqueStateVariables(stateVariablesIn(v)),
            LAMBDA qs, vs:
              Let1(IF vs = <<>> THEN qs ELSE Append(qs, ConcreteVariables(vs)),
                   LAMBDA members:
                     IF members = <<>> THEN emptyVariables
                     ELSE IF Len(members) = 1 THEN members[1]
                     ELSE UnionVariables(members)))

componentKinds == <<"read", "update", "temporal">>

simplifyConcreteEffect(e) ==
  ConcreteEffect(FlatMap(
    LAMBDA k:
      Let1(SelectSeq(e.components, LAMBDA c: c.kind = k),
           LAMBDA same:
             Let1(flattenUnions(UnionVariables(MapSeq(LAMBDA c: c.variables, same))),
                  LAMBDA v:
                    IF same = <<>> \/ (v.kind = "concrete" /\ v.vars = <<>>)
                    THEN <<>> ELSE <<EffectComponent(k, v)>>)),
    componentKinds))

RECURSIVE simplify(_)
simplify(e) ==
  CASE e.kind = "concrete" -> simplifyConcreteEffect(e)
    [] e.kind = "quantified" -> e
    [] e.kind = "arrow" -> ArrowEffect(MapSeq(simplify, e.params), simplify(e.result))

-----------------------------------------------------------------------------
(* Printing: printing.ts *)

variablesToString(v) ==
  [stateVars |-> BagOfSeq(MapSeq(LAMBDA s: s.name, stateVariablesIn(v))),
   quantified |-> BagOfSeq(quantifiedIn(v))]

effectComponentToString(c) ==
  [kind |-> c.kind, variables |-> variablesToString(c.variables)]

RECURSIVE effectToString(_)
effectToString(e) ==
  CASE e.kind = "concrete" ->
         [kind |-> "concrete",
          parts |-> FlatMap(
            LAMBDA k: MapSeq(effectComponentToString,
                             SelectSeq(e.components, LAMBDA c: c.kind = k)),
            componentKinds)]
    [] e.kind = "quantified" -> [kind |-> "quantified", name |-> e.name]
    [] e.kind = "arrow" ->
         [kind |-> "arrow",
          params |-> MapSeq(effectToString, e.params),
          result |-> effectToString(e.result)]

-----------------------------------------------------------------------------
(* Substitutions: substitutions.ts *)

RECURSIVE substituteInVariables(_, _)
substituteInVariables(b, v) ==
  CASE v.kind = "quantified" ->
         IF b.kind = "variable" /\ b.name = v.name THEN b.value ELSE v
    [] v.kind = "union" ->
         UnionVariables(MapSeq(LAMBDA m: substituteInVariables(b, m), v.variables))
    [] v.kind = "concrete" -> v

applySubstitutionToVariables(subs, v) ==
  FoldLeft(LAMBDA acc, b: substituteInVariables(b, acc), v, subs)

RECURSIVE substituteInEffect(_, _)
substituteInEffect(b, e) ==
  CASE e.kind = "quantified" ->
         IF b.kind = "effect" /\ b.name = e.name THEN b.value ELSE e
    [] e.kind = "arrow" ->
         ArrowEffect(MapSeq(LAMBDA p: substituteInEffect(b, p), e.params),
                     substituteInEffect(b, e.result))
    [] e.kind = "concrete" ->
         ConcreteEffect(MapSeq(
           LAMBDA c: EffectComponent(c.kind, substituteInVariables(b, c.variables)),
           e.components))

\* bindings are applied in order, each to the result of the ones before it
applySubstitution(subs, e) ==
  simplify(FoldLeft(LAMBDA acc, b: substituteInEffect(b, acc), e, subs))

applySubstitutionsToSubstitutions(s1, s2) ==
  MapSeq(LAMBDA b: Binding(b.kind, b.name,
                           IF b.kind = "effect"
                           THEN applySubstitution(s1, b.value)
                           ELSE flattenUnions(applySubstitutionToVariables(s1, b.value))),
         s2)

sameBinder(b1, b2) == b1.kind = b2.kind /\ b1.name = b2.name

compose(s1, s2) ==
  Let1(s1 \o applySubstitutionsToSubstitutions(s1, s2),
       LAMBDA all:
         IF \E i, j \in 1..Len(all):
              i < j /\ sameBinder(all[i], all[j]) /\ all[i].value # all[j].value
         THEN Left(<<"Inconsistent bindings for the same name">>)
         ELSE Right(FoldLeft(
                LAMBDA acc, b: IF \E i \in 1..Len(acc): sameBinder(acc[i], b)
                               THEN acc ELSE Append(acc, b),
                <<>>, all)))

-----------------------------------------------------------------------------
(* The unifier: base.ts *)

Name(k, n) == [kind |-> k, name |-> n]

RECURSIVE variablesNames(_)
variablesNames(v) ==
  CASE v.kind = "concrete" -> <<>>
    [] v.kind = "quantified" -> <<Name("variable", v.name)>>
    [] v.kind = "union" -> FlatMap(variablesNames, v.variables)

RECURSIVE effectNames(_)
effectNames(e) ==
  CASE e.kind = "concrete" -> FlatMap(LAMBDA c: variablesNames(c.variables), e.components)
    [] e.kind = "arrow" -> FlatMap(effectNames, e.params) \o effectNames(e.result)
    [] e.kind = "quantified" -> <<Name("effect", e.name)>>

cyclicalBinding == <<"Can't bind: cyclical binding">>

\* mutant: the occurs-check ignores the kind of the names it finds
bindEffect_AnyKind(name, effect) ==
  IF \E n \in Range(effectNames(effect)): n.name = name
  THEN Left(cyclicalBinding)
  ELSE Right(<<Binding("effect", name, effect)>>)

bindEffect(name, effect) ==
  IF \E n \in Range(effectNames(effect)): n.kind = "effect" /\ n.name = name
  THEN Left(cyclicalBinding)
  ELSE Right(<<Binding("effect", name, effect)>>)

\* mutant: the name is bound to the empty set of state variables
bindVariables_ToNothing(name, variables) ==
  IF \E n \in Range(variablesNames(variables)): n.kind = "variable" /\ n.name = name
  THEN Left(cyclicalBinding)
  ELSE Right(<<Binding("variable", name, emptyVariables)>>)

bindVariables(name, variables) ==
  IF \E n \in Range(variablesNames(variables)): n.kind = "variable" /\ n.name = name
  THEN Left(cyclicalBinding)
  ELSE Right(<<Binding("variable", name, variables)>>)

compatibleComponentKinds == <<{"read", "update"}, {"read", "temporal"}>>

\* mutant: Read is compatible with Update only
areCompatible_ReadUpdateOnly(c1, c2) ==
  c1.kind \in compatibleComponentKinds[1] /\ c2.kind \in compatibleComponentKinds[1]

areCompatible(c1, c2) ==
  \E i \in 1..Len(compatibleComponentKinds):
    c1.kind \in compatibleComponentKinds[i] /\ c2.kind \in compatibleComponentKinds[i]

\* mutant: the domination is the wrong way round
isDominant_TemporalOverUpdate(c1, c2) == c1.kind = "temporal" /\ c2.kind = "update"

isDominant(c1, c2) == c1.kind = "update" /\ c2.kind = "temporal"

\* mutant: state variables are compared with their reference ids
stateVariableNames_WithReferences(v) == {v.vars[i] : i \in 1..Len(v.vars)}

stateVariableNames(v) == {v.vars[i].name : i \in 1..Len(v.vars)}

\* `${vars.map(v => v.name)}`: the names, separated by commas
namesToString(vs) ==
  FoldLeft(LAMBDA acc, i: acc \o (IF i = 1 THEN "" ELSE ",") \o vs[i].name,
           "", [i \in 1..Len(vs) |-> i])

RECURSIVE unifyVariables(_, _)
\* mutant: two unions are not compared before the union cases
unifyVariables_NoEqualityTest(a, b) ==
  Let2(flattenUnions(a), flattenUnions(b),
       LAMBDA v1, v2:
         IF v1.kind = "concrete" /\ v2.kind = "concrete"
         THEN IF stateVariableNames(v1) = stateVariableNames(v2)
              THEN Right(<<>>)
              ELSE Left(<<"Expected variables [" \o namesToString(v1.vars) \o "] and ["
                            \o namesToString(v2.vars) \o "] to be the same">>)
         ELSE IF v1.kind = "quantified" /\ v2.kind = "quantified" /\ v1.name = v2.name
         THEN Right(<<>>)
         ELSE IF v1.kind = "quantified"
         THEN bindVariables(v1.name, v2)
         ELSE IF v2.kind = "quantified"
         THEN bindVariables(v2.name, v1)
         ELSE IF v1.kind = "union" /\ v2.kind = "concrete"
         THEN chain(mergeInMany(MapSeq(LAMBDA v: unifyVariables(v, v2), v1.variables)),
                    LAMBDA subs: Right(FlatMap(LAMBDA s: s, subs)))
         ELSE IF v1.kind = "concrete" /\ v2.kind = "union"
         THEN unifyVariables(v2, v1)
         ELSE Left(<<"Unification for unions of variables is not implemented">>))

unifyVariables(a, b) ==
  Let2(flattenUnions(a), flattenUnions(b),
       LAMBDA v1, v2:
         IF v1.kind = "concrete" /\ v2.kind = "concrete"
         THEN IF stateVariableNames(v1) = stateVariableNames(v2)
              THEN Right(<<>>)
              ELSE Left(<<"Expected variables [" \o namesToString(v1.vars) \o "] and ["
                            \o namesToString(v2.vars) \o "] to be the same">>)
         ELSE IF v1.kind = "quantified" /\ v2.kind = "quantified" /\ v1.name = v2.name
         THEN Right(<<>>)
         ELSE IF v1.kind = "quantified"
         THEN bindVariables(v1.name, v2)
         ELSE IF v2.kind = "quantified"
         THEN bindVariables(v2.name, v1)
         ELSE IF v1 = v2
         THEN Right(<<>>)
         ELSE IF v1.kind = "union" /\ v2.kind = "concrete"
         THEN chain(mergeInMany(MapSeq(LAMBDA v: unifyVariables(v, v2), v1.variables)),
                    LAMBDA subs: Right(FlatMap(LAMBDA s: s, subs)))
         ELSE IF v1.kind = "concrete" /\ v2.kind = "union"
         THEN unifyVariables(v2, v1)
         ELSE Left(<<"Unification for unions of variables is not implemented">>))

\* one step of the nested reduce of generalResult: acc is the Either so far
unifyComponents(acc, ca, cb) ==
  chain(acc,
        LAMBDA subs:
          Let2(EffectComponent(ca.kind, applySubstitutionToVariables(subs, ca.variables)),
               EffectComponent(cb.kind, applySubstitutionToVariables(subs, cb.variables)),
               LAMBDA c1, c2:
                 chain(IF c1.kind = c2.kind
                       THEN unifyVariables(c1.variables, c2.variables)
                       ELSE IF areCompatible(c1, c2)
                       THEN Right(<<>>)
                       ELSE IF isDominant(c1, c2)
                       THEN unifyVariables(emptyVariables, c2.variables)
                       ELSE IF isDominant(c2, c1)
                       THEN unifyVariables(c1.variables, emptyVariables)
                       ELSE Left(<<"Can't unify components">>),
                       LAMBDA s: compose(subs, s))))

\* mutant: a component whose kind `other` lacks is left as it is
nullifyMissing_LeavesThem(mine, other, mineFirst) == Right(<<>>)

\* the components of `mine` whose kind `other` lacks are nullified
nullifyMissing(mine, other, mineFirst) ==
  FoldLeft(
    LAMBDA result, c:
      IF ~\E i \in 1..Len(other.components): other.components[i].kind = c.kind
      THEN chain(result,
                 LAMBDA subs:
                   chain(IF mineFirst
                         THEN unifyVariables(c.variables, emptyVariables)
                         ELSE unifyVariables(emptyVariables, c.variables),
                         LAMBDA newSubs: compose(subs, newSubs)))
      ELSE result,
    Right(<<>>), mine.components)

unifyConcrete(e1, e2) ==
  Let2(FoldLeft(LAMBDA result, ca:
                  FoldLeft(LAMBDA innerResult, cb: unifyComponents(innerResult, ca, cb),
                           result, e2.components),
                Right(<<>>), e1.components),
       nullifyMissing(e1, e2, TRUE),
       LAMBDA generalResult, e1Result:
         Let1(nullifyMissing(e2, e1, FALSE),
              LAMBDA e2Result:
                chain(chain(e1Result,
                            LAMBDA s1: chain(e2Result, LAMBDA s2: compose(s1, s2))),
                      LAMBDA s1: chain(generalResult, LAMBDA s2: compose(s1, s2)))))

RECURSIVE hashVariables(_)
hashVariables(v) ==
  CASE v.kind = "concrete" -> v
    [] v.kind = "quantified" -> v
    [] v.kind = "union" ->
         LET nested == MapSeq(hashVariables, v.variables)
             name == FlatMap(LAMBDA n: n.name, SelectSeq(nested, LAMBDA n: n.kind = "quantified"))
             variables == SelectSeq(nested, LAMBDA n: n.kind # "quantified")
             anyName == \E i \in 1..Len(nested): nested[i].kind = "quantified"
         IN  IF ~anyName
             THEN IF Len(variables) > 0 THEN UnionVariables(variables) ELSE emptyVariables
             ELSE IF Len(variables) > 0
                  THEN UnionVariables(<<QuantifiedVariables(name)>> \o variables)
                  ELSE QuantifiedVariables(name)

\* mutant: the arrow is left as it is, and no variable is bound
simplifyArrowEffect_NoHashing(params, result) ==
  [arrow |-> ArrowEffect(params, result), subs |-> <<>>]

simplifyArrowEffect(params, result) ==
  IF Len(params) = 1 /\ effectToString(params[1]) = effectToString(result)
     /\ params[1].kind = "concrete"
  THEN LET effect == params[1]
           hashedComponents ==
             MapSeq(LAMBDA c: EffectComponent(c.kind, hashVariables(c.variables)),
                    effect.components)
       IN  [arrow |-> ArrowEffect(<<ConcreteEffect(hashedComponents)>>, result),
            subs |-> FlatMap(
              LAMBDA c: MapSeq(LAMBDA n: Binding("variable", n.name, hashVariables(c.variables)),
                               variablesNames(c.variables)),
              effect.components)]
  ELSE [arrow |-> ArrowEffect(params, result), subs |-> <<>>]

RECURSIVE tryToUnpack(_, _)
tryToUnpack(effects1, effects2) ==
  IF Len(effects2) < Len(effects1) THEN tryToUnpack(effects2, effects1)
  ELSE IF Len(effects1) # 1
  THEN Left(<<"Expected " \o ToString(Len(effects2)) \o " arguments, got "
                \o ToString(Len(effects1))>>)
  ELSE LET components ==
             FlatMap(LAMBDA e: IF e.kind = "concrete" THEN e.components ELSE <<>>, effects2)
           kinds == Dedup(MapSeq(LAMBDA c: c.kind, components))
           unpacked ==
             ConcreteEffect(MapSeq(
               LAMBDA k: EffectComponent(k, UnionVariables(
                           MapSeq(LAMBDA c: c.variables,
                                  SelectSeq(components, LAMBDA c: c.kind = k)))),
               kinds))
       IN  Right(<<effects1, <<simplify(unpacked)>> >>)

RECURSIVE unify(_, _)
RECURSIVE unifyArrows(_, _)
RECURSIVE applySubstitutionsAndUnify(_, _, _)

applySubstitutionsAndUnify(subs, e1, e2) ==
  chain(unify(applySubstitution(subs, e1), applySubstitution(subs, e2)),
        LAMBDA newSubstitutions: compose(newSubstitutions, subs))

unifyArrows(e1, e2) ==
  chain(IF Len(e1.params) = Len(e2.params)
        THEN Right(<<e1.params, e2.params>>)
        ELSE tryToUnpack(e1.params, e2.params),
        LAMBDA params:
          Let2(simplifyArrowEffect(params[1], e1.result),
               simplifyArrowEffect(params[2], e2.result),
               LAMBDA a1, a2:
                 chain(FoldLeft(LAMBDA result, i:
                                  chain(result,
                                        LAMBDA subs:
                                          applySubstitutionsAndUnify(
                                            subs, a1.arrow.params[i], a2.arrow.params[i])),
                                compose(a1.subs, a2.subs),
                                [i \in 1..Len(a1.arrow.params) |-> i]),
                       LAMBDA subs:
                         applySubstitutionsAndUnify(subs, a1.arrow.result, a2.arrow.result))))

\* mutant: no comparison of the printed forms before the structural cases
unify_NoShortCircuit(a, b) ==
  Let2(simplify(a), simplify(b),
       LAMBDA e1, e2:
         IF e1.kind = "arrow" /\ e2.kind = "arrow" THEN unifyArrows(e1, e2)
         ELSE IF e1.kind = "concrete" /\ e2.kind = "concrete" THEN unifyConcrete(e1, e2)
         ELSE IF e1.kind = "quantified" THEN bindEffect(e1.name, e2)
         ELSE IF e2.kind = "quantified" THEN bindEffect(e2.name, e1)
         ELSE Left(<<"Can't unify different types of effects">>))

unify(a, b) ==
  Let2(simplify(a), simplify(b),
       LAMBDA e1, e2:
         IF effectToString(e1) = effectToString(e2) THEN Right(<<>>)
         ELSE IF e1.kind = "arrow" /\ e2.kind = "arrow" THEN unifyArrows(e1, e2)
         ELSE IF e1.kind = "concrete" /\ e2.kind = "concrete" THEN unifyConcrete(e1, e2)
         ELSE IF e1.kind = "quantified" THEN bindEffect(e1.name, e2)
         ELSE IF e2.kind = "quantified" THEN bindEffect(e2.name, e1)
         ELSE Left(<<"Can't unify different types of effects">>))

-----------------------------------------------------------------------------
(* The unifier's inputs: bounded sets of variables and effects *)

MaxComponents == 2  \* components of a generated concrete effect
MaxParams == 2      \* parameters of a generated arrow effect

X == ConcreteVariables(<<StateVariable("x", 1)>>)
Y == ConcreteVariables(<<StateVariable("y", 2)>>)
XY == ConcreteVariables(<<StateVariable("x", 3), StateVariable("y", 2)>>)
Qa == QuantifiedVariables(<<"a">>)
Qb == QuantifiedVariables(<<"b">>)
Qc == QuantifiedVariables(<<"c">>)
Qd == QuantifiedVariables(<<"d">>)
Uab == UnionVariables(<<Qa, Qb>>)
Uax == UnionVariables(<<Qa, X>>)
Ucd == UnionVariables(<<Qc, Qd>>)

VariablesUniverse == {emptyVariables, X, Y, XY, Qa, Qb, Qc, Uab, Uax, Ucd}
FewVariables == {X, Y, Qa, Qb}

\* the variable-sets handed to unifyVariables: those above, and state
\* variables with other reference ids, in another order and repeated, and
\* unions of state variables, of three names, and of a name with state
\* variables
X4 == ConcreteVariables(<<StateVariable("x", 4)>>)
YX == ConcreteVariables(<<StateVariable("y", 2), StateVariable("x", 1)>>)
XX == ConcreteVariables(<<StateVariable("x", 1), StateVariable("x", 4)>>)
Uxy == UnionVariables(<<X, Y>>)
Uabc == UnionVariables(<<Uab, Qc>>)
Uaxy == UnionVariables(<<Qa, XY>>)
Uax4 == UnionVariables(<<Qa, X4>>)

VariableSets == VariablesUniverse \cup {X4, YX, XX, Uxy, Uabc, Uaxy, Uax4}

\* the strictly increasing sequences of n kinds
KindChoices(n) ==
  {ks \in [1..n -> 1..Len(componentKinds)] : \A i \in 1..n - 1: ks[i] < ks[i + 1]}

ConcreteOfSize(n, vars) ==
  {ConcreteEffect([i \in 1..n |-> EffectComponent(componentKinds[ks[i]], vs[i])]) :
     ks \in KindChoices(n), vs \in [1..n -> vars]}

Read(v) == ConcreteEffect(<<EffectComponent("read", v)>>)
Pure == ConcreteEffect(<<>>)

ConcreteUniverse ==
  {Pure}
  \cup ConcreteOfSize(1, VariablesUniverse)
  \cup UNION {ConcreteOfSize(n, FewVariables) : n \in 2..MaxComponents}
  \cup {ConcreteEffect(<<EffectComponent("read", Qa), EffectComponent("read", X)>>),
        ConcreteEffect(<<EffectComponent("update", Qa), EffectComponent("read", Qa)>>)}

E1 == QuantifiedEffect(<<"e1">>)
E2 == QuantifiedEffect(<<"e2">>)
Ea == QuantifiedEffect(<<"a">>)

QuantifiedUniverse == {E1, E2, Ea}

UnaryParams == {Read(Uab), Read(Qc), Read(Uax), E1, E2}
UnaryResults == UnaryParams \cup {Read(Ucd)}
NaryParams == {Read(Qc), Read(Qd), E2}
NaryResults == {Read(Ucd), Read(Qc), E1}

ArrowUniverse ==
  {ArrowEffect(<<p>>, r) : p \in UnaryParams, r \in UnaryResults}
  \cup UNION {{ArrowEffect(ps, r) : ps \in [1..n -> NaryParams], r \in NaryResults} :
                n \in 2..MaxParams}

EffectUniverse == ConcreteUniverse \cup QuantifiedUniverse \cup ArrowUniverse

NameUniverse == {<<"a">>, <<"b">>, <<"e1">>}

NoEffect == QuantifiedEffect(<<>>)
NoName == <<>>
NoResult == Left(<<>>)

-----------------------------------------------------------------------------
(* The IR: quintIr.ts. Every node has an id of its own. *)

QuintInt(id) == [kind |-> "int", id |-> id]
QuintName(id, name) == [kind |-> "name", id |-> id, name |-> name]
QuintApp(id, opcode, args) == [kind |-> "app", id |-> id, opcode |-> opcode, args |-> args]
QuintLambda(id, params, expr) ==
  [kind |-> "lambda", id |-> id, params |-> params, expr |-> expr]
QuintLet(id, opdef, expr) == [kind |-> "let", id |-> id, opdef |-> opdef, expr |-> expr]
QuintOpDef(id, name, expr) == [kind |-> "def", id |-> id, name |-> name, expr |-> expr]
QuintVar(id, name) == [kind |-> "var", id |-> id, name |-> name]
QuintConst(id, name) == [kind |-> "const", id |-> id, name |-> name]

\* the expressions of a subtree, the root first
RECURSIVE expressionsOf(_)
expressionsOf(e) ==
  <<e>> \o (CASE e.kind = "app" -> FlatMap(expressionsOf, e.args)
              [] e.kind = "lambda" -> expressionsOf(e.expr)
              [] e.kind = "let" -> expressionsOf(e.opdef.expr) \o expressionsOf(e.expr)
              [] OTHER -> <<>>)

moduleExpressions(m) ==
  FlatMap(LAMBDA d: IF d.kind = "def" THEN expressionsOf(d.expr) ELSE <<>>, m)

idsOf(e) == {n.id : n \in Range(expressionsOf(e))}

-----------------------------------------------------------------------------
(* The traversal: IRVisitor.walkModule, as the sequence of the callbacks of *)
(* the inferrer it makes, children before their parent                      *)

Event(h, n) == [handler |-> h, node |-> n]

RECURSIVE walkExpression(_)
RECURSIVE walkDefinition(_)

walkExpression(e) ==
  <<Event("enterExpr", e)>> \o
  (CASE e.kind = "int" -> <<Event("exitLiteral", e)>>
     [] e.kind = "name" -> <<Event("exitName", e)>>
     [] e.kind = "app" -> FlatMap(walkExpression, e.args) \o <<Event("exitApp", e)>>
     [] e.kind = "lambda" -> walkExpression(e.expr) \o <<Event("exitLambda", e)>>
     [] e.kind = "let" ->
          walkDefinition(e.opdef) \o walkExpression(e.expr) \o <<Event("exitLet", e)>>)

walkDefinition(d) ==
  IF d.kind = "def" THEN walkExpression(d.expr) \o <<Event("exitOpDef", d)>> ELSE <<>>

walkModule(m) == FlatMap(walkDefinition, m)

-----------------------------------------------------------------------------
(* Name resolution: lookupTable.ts and scoping.ts. A definition is visible  *)
(* at the ids of its scope; the innermost scope wins.                       *)

NoId == 0

Definition(identifier, k, reference, scope) ==
  [identifier |-> identifier, kind |-> k, reference |-> reference, scope |-> scope]

NotFound == [kind |-> "notFound", reference |-> NoId]

\* the definitions made inside an expression: lambda parameters, let operators
RECURSIVE localDefinitions(_)
localDefinitions(e) ==
  CASE e.kind = "app" -> FlatMap(localDefinitions, e.args)
    [] e.kind = "lambda" ->
         [i \in 1..Len(e.params) |-> Definition(e.params[i], "param", e.expr.id, idsOf(e))]
         \o localDefinitions(e.expr)
    [] e.kind = "let" ->
         <<Definition(e.opdef.name, "val", e.opdef.id, idsOf(e))>>
         \o localDefinitions(e.opdef.expr) \o localDefinitions(e.expr)
    [] OTHER -> <<>>

moduleIds(m) == {n.id : n \in Range(moduleExpressions(m))}

lookupTable(m) ==
  FlatMap(LAMBDA d:
            IF d.kind \in {"var", "const"}
            THEN <<Definition(d.name, d.kind, d.id, moduleIds(m))>>
            ELSE <<Definition(d.name, IF d.expr.kind = "lambda" THEN "def" ELSE "val",
                              d.id, moduleIds(m))>>
                 \o localDefinitions(d.expr),
          m)

lookupValue(table, name, scope) ==
  Let1(SelectSeq(table, LAMBDA d: d.identifier = name /\ scope \in d.scope),
       LAMBDA visible:
         IF visible = <<>> THEN NotFound
         ELSE CHOOSE d \in Range(visible):
                \A other \in Range(visible): Cardinality(d.scope) <= Cardinality(other.scope))

-----------------------------------------------------------------------------
(* Effect schemes and the signatures of the built-in operators:             *)
(* builtinSignatures.ts                                                     *)

\* the quantified names of a scheme are kept in the order of their insertion
EffectScheme(e, effectVariables, entityVariables) ==
  [effect |-> e, effectVariables |-> effectVariables, entityVariables |-> entityVariables]

toScheme(e) == EffectScheme(e, <<>>, <<>>)

\* (Read[r1], ..., Read[rn]) => Read[r1, ..., rn]
readManyEffect(arity) ==
  Let1([i \in 1..arity |-> <<"r" \o ToString(i)>>],
       LAMBDA rs:
         EffectScheme(
           ArrowEffect(MapSeq(LAMBDA r: Read(QuantifiedVariables(r)), rs),
                       Read(UnionVariables(MapSeq(QuantifiedVariables, rs)))),
           <<>>, rs))

\* (Read[r1], Read[r2]) => Read[r2] & Update[r1]
assignEffect ==
  EffectScheme(
    ArrowEffect(<<Read(QuantifiedVariables(<<"r1">>)), Read(QuantifiedVariables(<<"r2">>))>>,
                ConcreteEffect(<<EffectComponent("read", QuantifiedVariables(<<"r2">>)),
                                 EffectComponent("update", QuantifiedVariables(<<"r1">>))>>)),
    <<>>, <<<<"r1">>, <<"r2">>>>)

builtinNames == {"iadd", "assign"}

builtinSignatures(opcode, arity) ==
  IF opcode = "assign" THEN assignEffect ELSE readManyEffect(arity)

-----------------------------------------------------------------------------
(* The inferrer: inferrer.ts. A handler maps the fields of the inferrer     *)
(* before the callback to the fields after it; `thrown` is set when the     *)
(* callback ends by an exception, which ends inferEffects as well.          *)

EmptyMap == [id \in {} |-> NoId]

InferrerState(fx, errs, subs, n, loc, t) ==
  [effects |-> fx, errors |-> errs, substitutions |-> subs, fresh |-> n,
   location |-> loc, thrown |-> t]

Location(what, id) == [what |-> what, id |-> id]

\* errorTree.ts: the tree is kept as its location and its leaf messages
buildErrorTree(loc, err) == [location |-> loc, children |-> err]

\* FreshVarGenerator.freshVar: the prefix followed by the counter
freshVar(prefix, n) == <<prefix \o ToString(n)>>

\* mutant: the name of the variable of a parameter leaves out the defining id
paramName_WithoutId(name, reference) == <<"e_" \o name>>

paramName(name, reference) == <<"e_" \o name \o "_" \o ToString(reference)>>

throw(st) == [st EXCEPT !.thrown = TRUE]

\* mutant: an id that gets an error gets the scheme of Pure as well
addToResults_SchemeWithError(st, exprId, result) ==
  IF result.ok
  THEN [st EXCEPT !.effects = (exprId :> result.value) @@ @]
  ELSE [st EXCEPT !.errors = (exprId :> buildErrorTree(st.location, result.error)) @@ @,
                  !.effects = (exprId :> toScheme(Pure)) @@ @]

addToResults(st, exprId, result) ==
  IF result.ok
  THEN [st EXCEPT !.effects = (exprId :> result.value) @@ @]
  ELSE [st EXCEPT !.errors = (exprId :> buildErrorTree(st.location, result.error)) @@ @]

hasResult(st, id) == id \in DOMAIN st.errors \/ id \in DOMAIN st.effects

\* fetchResult throws when hasResult(st, id) is false
fetchResult(st, id) ==
  IF id \in DOMAIN st.errors THEN Left(st.errors[id].children)
  ELSE Right(st.effects[id])

\* the instance of a scheme with the counter n: the effect, the counter after
\* it, and whether the substitution of the fresh names failed (which throws)
newInstance(scheme, n) ==
  Let2([i \in 1..Len(scheme.effectVariables) |->
          Binding("effect", scheme.effectVariables[i],
                  QuantifiedEffect(freshVar("e", n + i - 1)))],
       [i \in 1..Len(scheme.entityVariables) |->
          Binding("variable", scheme.entityVariables[i],
                  QuantifiedVariables(freshVar("v", n + Len(scheme.effectVariables) + i - 1)))],
       LAMBDA effectSubs, entitySubs:
         Let1(chain(compose(effectSubs, entitySubs),
                    LAMBDA s: Right(applySubstitution(s, scheme.effect))),
              LAMBDA result:
                [thrown |-> ~result.ok,
                 effect |-> IF result.ok THEN result.value ELSE NoEffect,
                 fresh |-> n + Len(effectSubs) + Len(entitySubs)]))

Fetched(t, result, n) == [thrown |-> t, result |-> result, fresh |-> n]

\* fetchResult(id).map(e => this.newInstance(e))
fetchInstance(st, id, n) ==
  IF ~hasResult(st, id) THEN Fetched(TRUE, NoResult, n)
  ELSE Let1(fetchResult(st, id),
            LAMBDA r:
              IF ~r.ok THEN Fetched(FALSE, r, n)
              ELSE Let1(newInstance(r.value, n),
                        LAMBDA i: Fetched(i.thrown, Right(i.effect), i.fresh)))

fetchSignature(st, table, opcode, scope, arity) ==
  IF opcode = "_"
  THEN Fetched(FALSE, Right(QuantifiedEffect(freshVar("_e", st.fresh))), st.fresh + 1)
  ELSE IF opcode \in builtinNames
  THEN Let1(newInstance(builtinSignatures(opcode, arity), st.fresh),
            LAMBDA i: Fetched(i.thrown, Right(i.effect), i.fresh))
  ELSE Let1(lookupValue(table, opcode, scope),
            LAMBDA def:
              IF def.kind = "notFound" \/ def.reference = NoId
              THEN Fetched(FALSE, Left(<<"Signature not found for name">>), st.fresh)
              ELSE IF def.kind = "param"
              THEN Fetched(FALSE, Right(QuantifiedEffect(paramName(opcode, def.reference))),
                           st.fresh)
              ELSE fetchInstance(st, def.reference, st.fresh))

enterExpr(st, e) == [st EXCEPT !.location = Location("Inferring effect for", e.id)]

\* the case 'val' | 'def' of exitName
exitNameOp(st, table, expr, def) ==
  IF def.reference # NoId /\ ~hasResult(st, def.reference) THEN throw(st)
  ELSE Let1(IF def.reference # NoId
            THEN addToResults(st, expr.id, fetchResult(st, def.reference))
            ELSE st,
            LAMBDA st1:
              Let1(fetchSignature(st1, table, expr.name, expr.id, 2),
                   LAMBDA sig:
                     IF sig.thrown THEN throw(st1)
                     ELSE IF sig.result.ok
                     THEN addToResults([st1 EXCEPT !.fresh = sig.fresh], expr.id,
                                       Right(toScheme(sig.result.value)))
                     ELSE [st1 EXCEPT !.fresh = sig.fresh]))

exitName(st, table, expr) ==
  IF DOMAIN st.errors # {} THEN st
  ELSE Let1(lookupValue(table, expr.name, expr.id),
            LAMBDA def:
              CASE def.kind = "notFound" ->
                     addToResults(st, expr.id,
                                  Left(<<"Couldn't find " \o expr.name \o " in the lookup table">>))
                [] def.kind = "param" ->
                     addToResults(st, expr.id,
                       IF def.reference # NoId
                       THEN Right(toScheme(QuantifiedEffect(paramName(expr.name, def.reference))))
                       ELSE Left(<<"Couldn't find an effect for lambda parameter named "
                                   \o expr.name \o " in context.">>))
                [] def.kind = "const" -> addToResults(st, expr.id, Right(toScheme(Pure)))
                [] def.kind = "var" ->
                     addToResults(st, expr.id,
                       Right(toScheme(Read(ConcreteVariables(<<StateVariable(expr.name, expr.id)>>)))))
                [] def.kind \in {"val", "def"} -> exitNameOp(st, table, expr, def)
                [] OTHER -> st)

\* mutant: a literal is skipped as the other expressions are, after an error
exitLiteral_SkipsOnErrors(st, expr) ==
  IF DOMAIN st.errors # {} THEN st
  ELSE addToResults(st, expr.id, Right(toScheme(Pure)))

exitLiteral(st, expr) == addToResults(st, expr.id, Right(toScheme(Pure)))

\* mutant: the body of the definition is given the scheme of Pure
exitOpDef_ResetsBody(st, def) ==
  IF DOMAIN st.errors # {} THEN st
  ELSE IF ~hasResult(st, def.expr.id) THEN throw(st)
  ELSE addToResults(addToResults(st, def.id, fetchResult(st, def.expr.id)),
                    def.expr.id, Right(toScheme(Pure)))

exitOpDef(st, def) ==
  IF DOMAIN st.errors # {} THEN st
  ELSE IF ~hasResult(st, def.expr.id) THEN throw(st)
  ELSE addToResults(st, def.id, fetchResult(st, def.expr.id))

exitLet(st, expr) ==
  IF DOMAIN st.errors # {} THEN st
  ELSE IF ~hasResult(st, expr.expr.id) THEN throw(st)
  ELSE addToResults(st, expr.id, fetchResult(st, expr.expr.id))

\* mergeInMany(expr.args.map(a => this.fetchResult(a.id).map(e => this.newInstance(e))))
instantiateArgs(st, args) ==
  Let1(FoldLeft(LAMBDA acc, a:
                  IF acc.thrown THEN acc
                  ELSE Let1(fetchInstance(st, a.id, acc.fresh),
                            LAMBDA f: [thrown |-> f.thrown,
                                       results |-> Append(acc.results, f.result),
                                       fresh |-> f.fresh]),
                [thrown |-> FALSE, results |-> <<>>, fresh |-> st.fresh], args),
       LAMBDA acc:
         Fetched(acc.thrown, IF acc.thrown THEN NoResult ELSE mergeInMany(acc.results),
                 acc.fresh))

\* what exitApp gathers before it unifies: the instances of the arguments,
\* the fresh result variable and the signature of the operator
appInputs(st, table, expr) ==
  Let1([st EXCEPT !.location =
          Location("Trying to infer effect for operator application in", expr.id)],
       LAMBDA st0:
         Let1(instantiateArgs(st0, expr.args),
              LAMBDA ps:
                Let1(IF ps.thrown THEN Fetched(TRUE, NoResult, ps.fresh)
                     ELSE fetchSignature([st0 EXCEPT !.fresh = ps.fresh + 1], table,
                                         expr.opcode, expr.id, Len(expr.args)),
                     LAMBDA sig:
                       [thrown |-> sig.thrown,
                        st |-> [st0 EXCEPT !.fresh = sig.fresh],
                        paramsResult |-> ps.result,
                        resultEffect |-> QuantifiedEffect(freshVar("e", ps.fresh)),
                        signature |-> sig.result])))

\* arrowEffect.chain(effect => unify(signature, effect))
appSubstitution(paramsResult, resultEffect, signature) ==
  chain(paramsResult, LAMBDA params: unify(signature, ArrowEffect(params, resultEffect)))

\* the results of the arguments after the substitution s
rewriteArgs(st, s, args, instances) ==
  FoldLeft(LAMBDA acc, i:
             addToResults(acc, args[i].id, Right(toScheme(applySubstitution(s, instances[i])))),
           st, [i \in 1..Len(args) |-> i])

\* mutant: the unifier replaces the running substitution
exitApp_KeepsOnlyTheUnifier(st, table, expr) ==
  IF DOMAIN st.errors # {} THEN st
  ELSE Let1(appInputs(st, table, expr),
            LAMBDA inputs:
              IF inputs.thrown THEN throw(inputs.st)
              ELSE Let1(chain(inputs.signature,
                              LAMBDA signature:
                                chain(appSubstitution(inputs.paramsResult,
                                                      inputs.resultEffect, signature),
                                      LAMBDA s: Right(s))),
                        LAMBDA composed:
                          IF composed.ok
                          THEN addToResults(
                                 rewriteArgs([inputs.st EXCEPT !.substitutions = composed.value],
                                             composed.value, expr.args, inputs.paramsResult.value),
                                 expr.id,
                                 Right(toScheme(applySubstitution(composed.value,
                                                                  inputs.resultEffect))))
                          ELSE addToResults(inputs.st, expr.id, Left(composed.error))))

exitApp(st, table, expr) ==
  IF DOMAIN st.errors # {} THEN st
  ELSE Let1(appInputs(st, table, expr),
            LAMBDA inputs:
              IF inputs.thrown THEN throw(inputs.st)
              ELSE Let1(chain(inputs.signature,
                              LAMBDA signature:
                                chain(appSubstitution(inputs.paramsResult,
                                                      inputs.resultEffect, signature),
                                      LAMBDA s: compose(inputs.st.substitutions, s))),
                        LAMBDA composed:
                          IF composed.ok
                          THEN addToResults(
                                 rewriteArgs([inputs.st EXCEPT !.substitutions = composed.value],
                                             composed.value, expr.args, inputs.paramsResult.value),
                                 expr.id,
                                 Right(toScheme(applySubstitution(composed.value,
                                                                  inputs.resultEffect))))
                          ELSE addToResults(inputs.st, expr.id, Left(composed.error))))

\* mergeInMany(lambda.params.map(p => this.fetchSignature(p, lambda.expr.id, 2)
\*   .chain(e => applySubstitution(this.substitutions, e))))
lambdaParams(st, table, lambda) ==
  Let1(FoldLeft(LAMBDA acc, p:
                  IF acc.thrown THEN acc
                  ELSE Let1(fetchSignature([st EXCEPT !.fresh = acc.fresh], table, p,
                                           lambda.expr.id, 2),
                            LAMBDA f:
                              [thrown |-> f.thrown,
                               results |-> Append(acc.results,
                                            chain(f.result,
                                                  LAMBDA e: Right(applySubstitution(
                                                              st.substitutions, e)))),
                               fresh |-> f.fresh]),
                [thrown |-> FALSE, results |-> <<>>, fresh |-> st.fresh], lambda.params),
       LAMBDA acc:
         Fetched(acc.thrown, IF acc.thrown THEN NoResult ELSE mergeInMany(acc.results),
                 acc.fresh))

\* mutant: the names of the result are quantified as well
nonFreeNames_OfTheWholeArrow(effect, k) ==
  Dedup(MapSeq(LAMBDA n: n.name, SelectSeq(effectNames(effect), LAMBDA n: n.kind = k)))

\* the names of the parameters of an arrow, of one kind, without repetition
nonFreeNames(effect, k) ==
  Dedup(MapSeq(LAMBDA n: n.name,
               SelectSeq(FlatMap(effectNames, effect.params), LAMBDA n: n.kind = k)))

exitLambda(st, table, lambda) ==
  IF DOMAIN st.errors # {} THEN st
  ELSE IF ~hasResult(st, lambda.expr.id) THEN throw(st)
  ELSE Let2(fetchResult(st, lambda.expr.id), lambdaParams(st, table, lambda),
            LAMBDA exprResult, params:
              IF params.thrown THEN throw(st)
              ELSE Let2([st EXCEPT !.fresh = params.fresh],
                        chain(exprResult,
                              LAMBDA resultEffect:
                                chain(params.result,
                                      LAMBDA ps:
                                        Right(EffectScheme(
                                          ArrowEffect(ps, resultEffect.effect),
                                          resultEffect.effectVariables,
                                          resultEffect.entityVariables)))),
                        LAMBDA st1, scheme:
                          IF ~scheme.ok THEN addToResults(st1, lambda.id, scheme)
                          \* this.newInstance is passed unbound: it throws as soon
                          \* as it has a name to make fresh
                          ELSE IF scheme.value.effectVariables # <<>>
                                  \/ scheme.value.entityVariables # <<>>
                          THEN throw(st1)
                          ELSE Let1(applySubstitution(
                                      st1.substitutions,
                                      newInstance(scheme.value, st1.fresh).effect),
                                    LAMBDA effect:
                                      addToResults(st1, lambda.id,
                                        Right(EffectScheme(effect,
                                                           nonFreeNames(effect, "effect"),
                                                           nonFreeNames(effect, "variable")))))))

-----------------------------------------------------------------------------
(* The inferrer's inputs: modules of one state variable x, one constant N  *)
(* and up to MaxDefs operator definitions d1, d2, ..., each made from one   *)
(* of the templates                                                         *)

MaxDefs == 2  \* operator definitions of a generated module

Id(k, j) == 10 * k + j

DefName(k) == "d" \o ToString(k)

Templates ==
  {"int", "undefined", "assign", "nested", "lambda", "callPrev", "refPrev", "let", "refNext",
   "const", "twice", "identity", "inner", "callSelf"}

Body(t, k) ==
  CASE t = "int" -> QuintInt(Id(k, 1))
       \* iadd(undefinedName, 1)
    [] t = "undefined" ->
         QuintApp(Id(k, 1), "iadd",
                  <<QuintName(Id(k, 2), "undefinedName"), QuintInt(Id(k, 3))>>)
       \* assign(x, 1)
    [] t = "assign" ->
         QuintApp(Id(k, 1), "assign", <<QuintName(Id(k, 2), "x"), QuintInt(Id(k, 3))>>)
       \* iadd(assign(x, 1), 2)
    [] t = "nested" ->
         QuintApp(Id(k, 1), "iadd",
                  <<QuintApp(Id(k, 2), "assign",
                             <<QuintName(Id(k, 3), "x"), QuintInt(Id(k, 4))>>),
                    QuintInt(Id(k, 5))>>)
       \* (p) => iadd(p, x)
    [] t = "lambda" ->
         QuintLambda(Id(k, 1), <<"p">>,
                     QuintApp(Id(k, 2), "iadd",
                              <<QuintName(Id(k, 3), "p"), QuintName(Id(k, 4), "x")>>))
       \* the definition before this one, applied to x
    [] t = "callPrev" ->
         QuintApp(Id(k, 1), DefName(k - 1), <<QuintName(Id(k, 2), "x")>>)
       \* the name of the definition before this one
    [] t = "refPrev" -> QuintName(Id(k, 1), DefName(k - 1))
       \* val t = x { t }
    [] t = "let" ->
         QuintLet(Id(k, 1),
                  QuintOpDef(Id(k, 2), "t" \o ToString(k), QuintName(Id(k, 3), "x")),
                  QuintName(Id(k, 4), "t" \o ToString(k)))
       \* the name of the definition after this one
    [] t = "refNext" -> QuintName(Id(k, 1), DefName(k + 1))
       \* (p) => iadd(iadd(p, x), p)
    [] t = "twice" ->
         QuintLambda(Id(k, 1), <<"p">>,
                     QuintApp(Id(k, 2), "iadd",
                              <<QuintApp(Id(k, 3), "iadd",
                                         <<QuintName(Id(k, 4), "p"), QuintName(Id(k, 5), "x")>>),
                                QuintName(Id(k, 6), "p")>>))
       \* (p) => p
    [] t = "identity" -> QuintLambda(Id(k, 1), <<"p">>, QuintName(Id(k, 2), "p"))
       \* (p) => ((q) => p)
    [] t = "inner" ->
         QuintLambda(Id(k, 1), <<"p">>,
                     QuintLambda(Id(k, 2), <<"q">>, QuintName(Id(k, 3), "p")))
       \* (p) => this definition applied to p
    [] t = "callSelf" ->
         QuintLambda(Id(k, 1), <<"p">>,
                     QuintApp(Id(k, 2), DefName(k), <<QuintName(Id(k, 3), "p")>>))
       \* iadd(N, x)
    [] t = "const" ->
         QuintApp(Id(k, 1), "iadd", <<QuintName(Id(k, 2), "N"), QuintName(Id(k, 3), "x")>>)

Def(t, k) == QuintOpDef(Id(k, 0), DefName(k), Body(t, k))

Declarations == <<QuintVar(1, "x"), QuintConst(2, "N")>>

ModuleOf(ts) == Declarations \o [k \in 1..Len(ts) |-> Def(ts[k], k)]

Modules == UNION {{ModuleOf(ts) : ts \in [1..n -> Templates]} : n \in 1..MaxDefs}

NoLocation == Location("", NoId)

-----------------------------------------------------------------------------
(* The evaluator's context: Context.ts and VarStorage.ts. The state         *)
(* variables have a current value and a next value, which is Undefined      *)
(* until an action assigns it. The log is the sequence of the calls of      *)
(* argument closures made so far, kept for the properties.                  *)

Undefined == -1

StateVars == {"x", "y"}

Context(vs, nextVs, shifts, log) ==
  [vars |-> vs, nextVars |-> nextVs, shifts |-> shifts, log |-> log]

\* varStorage.nextVarsSnapshot(): a copy of the next values
nextVarsSnapshot(ctx) == ctx.nextVars

\* varStorage.recoverNextVars(snapshot): the next values are those of the copy
recoverNextVars(ctx, snapshot) == [ctx EXCEPT !.nextVars = snapshot]

\* ctx.shift(): the next values become the current ones, and no next value
\* is assigned
shift(ctx) ==
  [ctx EXCEPT !.vars = ctx.nextVars,
              !.nextVars = [v \in StateVars |-> Undefined],
              !.shifts = @ + 1]

\* evaluator.ts: isTrue(result)
isTrue(result) == result.ok /\ result.value = TRUE

QuintError(code) == [code |-> code]

\* what evaluating a closure gives: the context after it, and its result
Evaluated(ctx, result) == [ctx |-> ctx, result |-> result]

-----------------------------------------------------------------------------
(* The arguments of a lazy operator are closures (EvalFunction) over the    *)
(* context. The closures of the model: a boolean value, an error, an        *)
(* assignment of a next value that then gives a value or an error, and a    *)
(* test of a next or of a current value.                                    *)

EvalBool(b) == [kind |-> "bool", value |-> b]
EvalError(code) == [kind |-> "error", code |-> code]
EvalAssign(v, k, b) == [kind |-> "assign", v |-> v, k |-> k, value |-> b]
EvalAssignError(v, k, code) == [kind |-> "assignError", v |-> v, k |-> k, code |-> code]
EvalNextIs(v, k) == [kind |-> "nextIs", v |-> v, k |-> k]
EvalVarIs(v, k) == [kind |-> "varIs", v |-> v, k |-> k]

\* arg(ctx)
eval(arg, ctx) ==
  CASE arg.kind = "bool" -> Evaluated(ctx, Right(arg.value))
    [] arg.kind = "error" -> Evaluated(ctx, Left(QuintError(arg.code)))
    [] arg.kind = "assign" ->
         Evaluated([ctx EXCEPT !.nextVars[arg.v] = arg.k], Right(arg.value))
    [] arg.kind = "assignError" ->
         Evaluated([ctx EXCEPT !.nextVars[arg.v] = arg.k], Left(QuintError(arg.code)))
    [] arg.kind = "nextIs" -> Evaluated(ctx, Right(ctx.nextVars[arg.v] = arg.k))
    [] arg.kind = "varIs" -> Evaluated(ctx, Right(ctx.vars[arg.v] = arg.k))

\* args[i](ctx), with the call written to the log: the index of the
\* argument, the next values and the number of shifts it started from, the
\* next values it left, and its result
call(ctx, args, i) ==
  Let1(eval(args[i], ctx),
       LAMBDA e:
         Evaluated([e.ctx EXCEPT !.log = Append(@, [index |-> i,
                                                    before |-> ctx.nextVars,
                                                    shifts |-> ctx.shifts,
                                                    after |-> e.ctx.nextVars,
                                                    result |-> e.result])],
                   e.result))

indices(args) == [i \in 1..Len(args) |-> i]

-----------------------------------------------------------------------------
(* The lazy built-in operators: lazyBuiltinLambda of builtins.ts *)

\* mutant: `and` evaluates every argument while no error is returned
lazyAnd_EvaluatesAll(ctx, args) ==
  FoldLeft(LAMBDA acc, i: IF acc.result.ok THEN call(acc.ctx, args, i) ELSE acc,
           Evaluated(ctx, Right(TRUE)), indices(args))

\* case 'and'
lazyAnd(ctx, args) ==
  FoldLeft(LAMBDA acc, i:
             IF acc.result.ok /\ acc.result.value = TRUE THEN call(acc.ctx, args, i) ELSE acc,
           Evaluated(ctx, Right(TRUE)), indices(args))

\* case 'or'
lazyOr(ctx, args) ==
  FoldLeft(LAMBDA acc, i:
             IF acc.result.ok /\ acc.result.value = FALSE THEN call(acc.ctx, args, i) ELSE acc,
           Evaluated(ctx, Right(FALSE)), indices(args))

\* case 'implies'
lazyImplies(ctx, args) ==
  Let1(call(ctx, args, 1),
       LAMBDA l:
         IF ~l.result.ok THEN l
         ELSE IF ~l.result.value THEN Evaluated(l.ctx, Right(TRUE))
         ELSE call(l.ctx, args, 2))

\* mutant: the next values are not recovered after an option
anyOption_KeepsNextVars(acc, args, i, snapshot) ==
  Let1(call(acc.ctx, args, i),
       LAMBDA r:
         [ctx |-> r.ctx,
          results |-> Append(acc.results,
                             IF r.result.ok
                             THEN Right(IF r.result.value THEN <<r.ctx.nextVars>> ELSE <<>>)
                             ELSE Left(<<r.result.error>>))])

\* case 'actionAny', the callback of args.map: one option is evaluated, its
\* successor is saved when it is true, and the snapshot is recovered
anyOption(acc, args, i, snapshot) ==
  Let1(call(acc.ctx, args, i),
       LAMBDA r:
         [ctx |-> recoverNextVars(r.ctx, snapshot),
          results |-> Append(acc.results,
                             IF r.result.ok
                             THEN Right(IF r.result.value
                                        THEN <<nextVarsSnapshot(r.ctx)>> ELSE <<>>)
                             ELSE Left(<<r.result.error>>))])

\* ctx.rand(n) returns one of 0 .. n - 1
randRange(n) == 0..(n - 1)

\* the bound that actionAny passes to ctx.rand, when it calls it
anyRandBound(ctx, args) ==
  Let1(FoldLeft(LAMBDA acc, i: anyOption(acc, args, i, nextVarsSnapshot(ctx)),
                [ctx |-> ctx, results |-> <<>>], indices(args)),
       LAMBDA evaluation:
         Let1(mergeInMany(evaluation.results),
              LAMBDA merged:
                IF merged.ok THEN Len(FlatMap(LAMBDA suc: suc, merged.value)) ELSE 0))

\* mutant: the options that returned an error are left out
lazyActionAny_SkipsErrors(ctx, args, choice) ==
  Let1(FoldLeft(LAMBDA acc, i: anyOption(acc, args, i, nextVarsSnapshot(ctx)),
                [ctx |-> ctx, results |-> <<>>], indices(args)),
       LAMBDA evaluation:
         Let1(mergeInMany(SelectSeq(evaluation.results, LAMBDA r: r.ok)),
              LAMBDA merged:
                IF ~merged.ok THEN Evaluated(evaluation.ctx, Left(merged.error[1]))
                ELSE Let1(FlatMap(LAMBDA suc: suc, merged.value),
                          LAMBDA potentialSuccessors:
                            CASE Len(potentialSuccessors) = 0 ->
                                   Evaluated(evaluation.ctx, Right(FALSE))
                              [] Len(potentialSuccessors) = 1 ->
                                   Evaluated(recoverNextVars(evaluation.ctx,
                                                             potentialSuccessors[1]),
                                             Right(TRUE))
                              [] OTHER ->
                                   Evaluated(recoverNextVars(evaluation.ctx,
                                                             potentialSuccessors[choice + 1]),
                                             Right(TRUE)))))

\* case 'actionAny'; choice is what ctx.rand returns when it is called
lazyActionAny(ctx, args, choice) ==
  Let1(FoldLeft(LAMBDA acc, i: anyOption(acc, args, i, nextVarsSnapshot(ctx)),
                [ctx |-> ctx, results |-> <<>>], indices(args)),
       LAMBDA evaluation:
         Let1(mergeInMany(evaluation.results),
              LAMBDA merged:
                IF ~merged.ok THEN Evaluated(evaluation.ctx, Left(merged.error[1]))
                ELSE Let1(FlatMap(LAMBDA suc: suc, merged.value),
                          LAMBDA potentialSuccessors:
                            CASE Len(potentialSuccessors) = 0 ->
                                   Evaluated(evaluation.ctx, Right(FALSE))
                              [] Len(potentialSuccessors) = 1 ->
                                   Evaluated(recoverNextVars(evaluation.ctx,
                                                             potentialSuccessors[1]),
                                             Right(TRUE))
                              [] OTHER ->
                                   Evaluated(recoverNextVars(evaluation.ctx,
                                                             potentialSuccessors[choice + 1]),
                                             Right(TRUE)))))

\* mutant: the next values are left as they are when an argument is not true
lazyActionAll_KeepsNextVars(ctx, args) ==
  Let1(FoldLeft(LAMBDA acc, i:
                  IF acc.returned THEN acc
                  ELSE Let1(call(acc.ctx, args, i),
                            LAMBDA r:
                              IF ~isTrue(r.result)
                              THEN [ctx |-> r.ctx,
                                    result |-> IF r.result.ok THEN Right(FALSE) ELSE r.result,
                                    returned |-> TRUE]
                              ELSE [ctx |-> r.ctx, result |-> r.result, returned |-> FALSE]),
                [ctx |-> ctx, result |-> Right(TRUE), returned |-> FALSE], indices(args)),
       LAMBDA loop:
         IF loop.returned THEN Evaluated(loop.ctx, loop.result)
         ELSE Evaluated(loop.ctx, Right(TRUE)))

\* case 'actionAll'; `returned` is set by the return inside the loop
lazyActionAll(ctx, args) ==
  Let1(FoldLeft(LAMBDA acc, i:
                  IF acc.returned THEN acc
                  ELSE Let1(call(acc.ctx, args, i),
                            LAMBDA r:
                              IF ~isTrue(r.result)
                              THEN [ctx |-> recoverNextVars(r.ctx, nextVarsSnapshot(ctx)),
                                    result |-> IF r.result.ok THEN Right(FALSE) ELSE r.result,
                                    returned |-> TRUE]
                              ELSE [ctx |-> r.ctx, result |-> r.result, returned |-> FALSE]),
                [ctx |-> ctx, result |-> Right(TRUE), returned |-> FALSE], indices(args)),
       LAMBDA loop:
         IF loop.returned THEN Evaluated(loop.ctx, loop.result)
         ELSE Evaluated(loop.ctx, Right(TRUE)))

\* mutant: the second argument is evaluated before the shift
lazyThen_ShiftsLast(ctx, args) ==
  Let1(call(ctx, args, 1),
       LAMBDA first:
         IF ~first.result.ok THEN first
         ELSE IF ~first.result.value
         THEN Evaluated(first.ctx, Left(QuintError("QNT513")))
         ELSE Let1(call(first.ctx, args, 2),
                   LAMBDA second: Evaluated(shift(second.ctx), second.result)))

\* case 'then'
lazyThen(ctx, args) ==
  Let1(call(ctx, args, 1),
       LAMBDA first:
         IF ~first.result.ok THEN first
         ELSE IF ~first.result.value
         THEN Evaluated(first.ctx, Left(QuintError("QNT513")))
         ELSE call(shift(first.ctx), args, 2))

-----------------------------------------------------------------------------
(* The evaluator's inputs: a lazy operator, up to MaxArgs argument          *)
(* closures, and the context of the call                                    *)

MaxArgs == 2  \* arguments of a generated application of and, or, actionAny, actionAll

Closures ==
  {EvalBool(TRUE), EvalBool(FALSE), EvalError("QNT501"), EvalError("QNT502"),
   EvalAssign("x", 1, TRUE), EvalAssign("y", 1, TRUE), EvalAssign("x", 1, FALSE),
   EvalAssignError("x", 1, "QNT503"), EvalNextIs("x", 1), EvalVarIs("x", 1)}

ArgumentLists(n) == UNION {[1..k -> Closures] : k \in 0..n}

\* implies and then take two arguments
Arities(lazyOp) ==
  IF lazyOp \in {"implies", "then"} THEN [1..2 -> Closures] ELSE ArgumentLists(MaxArgs)

EntryContexts ==
  {Context([v \in StateVars |-> 0], nextVs, 0, <<>>) :
     nextVs \in {[v \in StateVars |-> Undefined],
                 [v \in StateVars |-> IF v = "x" THEN 0 ELSE Undefined]}}

IdleContext == Context([v \in StateVars |-> 0], [v \in StateVars |-> Undefined], 0, <<>>)

NoValue == Left(QuintError(""))

-----------------------------------------------------------------------------
(* The unifier harness: one call of a kernel function on inputs drawn in Init *)

\* no inferrer has returned yet
NoRun == [done |-> FALSE, errors |-> EmptyMap, effects |-> EmptyMap]

EvaluatorIdle ==
  /\ lop = "none" /\ largs = <<>> /\ entry = IdleContext /\ context = IdleContext
  /\ lres = NoValue /\ lphase = "done"

InferrerIdle ==
  /\ module = <<>> /\ pc = 1 /\ firstRun = NoRun
  /\ effects = EmptyMap /\ errors = EmptyMap /\ substitutions = <<>>
  /\ fresh = 0 /\ location = NoLocation /\ thrown = FALSE

InitUnify ==
  /\ phase = "start"
  /\ ures = NoResult
  /\ InferrerIdle
  /\ EvaluatorIdle
  /\ vb = emptyVariables
  /\ \/ /\ op = "unify"
        /\ ea \in EffectUniverse /\ eb \in EffectUniverse
        /\ va = emptyVariables /\ bname = NoName
     \/ /\ op = "bindEffect"
        /\ bname \in NameUniverse /\ ea \in EffectUniverse
        /\ eb = NoEffect /\ va = emptyVariables
     \/ /\ op = "bindVariables"
        /\ bname \in NameUniverse /\ va \in VariablesUniverse
        /\ ea = NoEffect /\ eb = NoEffect

Unify ==
  /\ op = "unify" /\ phase = "start"
  /\ ures' = unify(ea, eb)
  /\ phase' = "done"
  /\ UNCHANGED <<op, ea, eb, va, vb, bname, ivars, rvars, evars>>

BindEffect ==
  /\ op = "bindEffect" /\ phase = "start"
  /\ ures' = bindEffect(bname, ea)
  /\ phase' = "done"
  /\ UNCHANGED <<op, ea, eb, va, vb, bname, ivars, rvars, evars>>

BindVariables ==
  /\ op = "bindVariables" /\ phase = "start"
  /\ ures' = bindVariables(bname, va)
  /\ phase' = "done"
  /\ UNCHANGED <<op, ea, eb, va, vb, bname, ivars, rvars, evars>>

NextUnify == Unify \/ BindEffect \/ BindVariables

SpecUnify == InitUnify /\ [][NextUnify]_allvars

\* one call of unifyVariables on two variable-sets drawn in Init
InitUnifyVariables ==
  /\ phase = "start"
  /\ ures = NoResult
  /\ InferrerIdle
  /\ EvaluatorIdle
  /\ op = "unifyVariables"
  /\ va \in VariableSets /\ vb \in VariableSets
  /\ ea = NoEffect /\ eb = NoEffect /\ bname = NoName

UnifyVariables ==
  /\ op = "unifyVariables" /\ phase = "start"
  /\ ures' = unifyVariables(va, vb)
  /\ phase' = "done"
  /\ UNCHANGED <<op, ea, eb, va, vb, bname, ivars, rvars, evars>>

NextUnifyVariables == UnifyVariables

SpecUnifyVariables == InitUnifyVariables /\ [][NextUnifyVariables]_allvars

-----------------------------------------------------------------------------
(* The inferrer run: inferEffects(module), one callback of the traversal at *)
(* a time; pc is the position of the next callback                          *)

UnifierIdle ==
  /\ op = "none" /\ phase = "done" /\ ures = NoResult
  /\ ea = NoEffect /\ eb = NoEffect /\ va = emptyVariables /\ vb = emptyVariables
  /\ bname = NoName

InitInfer ==
  /\ module \in Modules
  /\ pc = 1
  /\ effects = EmptyMap /\ errors = EmptyMap /\ substitutions = <<>>
  /\ fresh = 0 /\ location = NoLocation /\ thrown = FALSE
  /\ firstRun = NoRun
  /\ UnifierIdle
  /\ EvaluatorIdle

events == walkModule(module)

currentTable == lookupTable(module)

Inferrer == InferrerState(effects, errors, substitutions, fresh, location, thrown)

Visiting(h) == ~thrown /\ pc <= Len(events) /\ events[pc].handler = h

Becomes(st) ==
  /\ effects' = st.effects /\ errors' = st.errors
  /\ substitutions' = st.substitutions /\ fresh' = st.fresh
  /\ location' = st.location /\ thrown' = st.thrown
  /\ pc' = pc + 1
  /\ UNCHANGED <<module, uvars, rvars, evars>>

EnterExpr == Visiting("enterExpr") /\ Becomes(enterExpr(Inferrer, events[pc].node))

ExitName == Visiting("exitName") /\ Becomes(exitName(Inferrer, currentTable, events[pc].node))

ExitApp == Visiting("exitApp") /\ Becomes(exitApp(Inferrer, currentTable, events[pc].node))

ExitLiteral == Visiting("exitLiteral") /\ Becomes(exitLiteral(Inferrer, events[pc].node))

ExitOpDef == Visiting("exitOpDef") /\ Becomes(exitOpDef(Inferrer, events[pc].node))

ExitLet == Visiting("exitLet") /\ Becomes(exitLet(Inferrer, events[pc].node))

ExitLambda ==
  Visiting("exitLambda") /\ Becomes(exitLambda(Inferrer, currentTable, events[pc].node))

NextInfer ==
  EnterExpr \/ ExitName \/ ExitApp \/ ExitLiteral \/ ExitOpDef \/ ExitLet \/ ExitLambda

SpecInfer == InitInfer /\ [][NextInfer]_allvars

\* inferEffects has returned
Returned == ~thrown /\ pc > Len(events)

-----------------------------------------------------------------------------
(* Two runs over the same module: when the first inferrer has returned, a   *)
(* second one is constructed and inferEffects is called on it               *)

\* mutant: the new inferrer goes on with the counter of the one before it
EffectInferrer_SharedGenerator(previous) ==
  InferrerState(EmptyMap, EmptyMap, <<>>, previous.fresh, NoLocation, FALSE)

\* new EffectInferrer(lookupTable), constructed after the inferrer `previous`
\* has run: every field is new, the fresh variable generator included
EffectInferrer(previous) ==
  InferrerState(EmptyMap, EmptyMap, <<>>, 0, NoLocation, FALSE)

InferAgain ==
  /\ Returned /\ ~firstRun.done
  /\ firstRun' = [done |-> TRUE, errors |-> errors, effects |-> effects]
  /\ Let1(EffectInferrer(Inferrer),
          LAMBDA st:
            /\ effects' = st.effects /\ errors' = st.errors
            /\ substitutions' = st.substitutions /\ fresh' = st.fresh
            /\ location' = st.location /\ thrown' = st.thrown)
  /\ pc' = 1
  /\ UNCHANGED <<module, uvars, evars>>

NextInferTwice == NextInfer \/ InferAgain

SpecInferTwice == InitInfer /\ [][NextInferTwice]_allvars

-----------------------------------------------------------------------------
(* Properties of the unifier *)

UnifyDone == phase = "done" /\ op = "unify"

SingleComponent(e, k) ==
  e.kind = "concrete" /\ Len(e.components) = 1 /\ e.components[1].kind = k

HasKind(e, k) == \E i \in 1..Len(e.components): e.components[i].kind = k

\* the variables of the component of kind k of a simplified concrete effect
VariablesOfKind(e, k) ==
  LET s == simplify(e)
  IN  (CHOOSE c \in Range(s.components): c.kind = k).variables

Bindings(r) == Range(r.value)

ReadAgainstOther ==
  /\ UnifyDone
  /\ SingleComponent(ea, "read")
  /\ SingleComponent(eb, "update") \/ SingleComponent(eb, "temporal")

\* C1, as claimed: a single Read component against a single Update (or
\* Temporal) component unifies with the empty substitution, whatever the
\* variables of the two components are.
C1_ReadAgainstOtherIsEmpty == ReadAgainstOther => ures = Right(<<>>)

\* C1, amended: the Read/Update (Read/Temporal) pair itself adds no binding,
\* but each of the two kinds is missing from the other effect, so both
\* components are nullified: unify succeeds iff neither component holds a
\* state variable, and it then binds exactly the quantified names of the two
\* components, each to the empty variables.
C1_ReadAgainstOtherNullifiesBoth ==
  ReadAgainstOther =>
    LET v1 == ea.components[1].variables
        v2 == eb.components[1].variables
    IN  /\ ures.ok <=> (stateVariablesIn(v1) = <<>> /\ stateVariablesIn(v2) = <<>>)
        /\ ures.ok =>
             /\ {b.name : b \in Bindings(ures)}
                  = Range(quantifiedIn(v1)) \cup Range(quantifiedIn(v2))
             /\ \A b \in Bindings(ures): b.kind = "variable" /\ b.value = emptyVariables

C1_Witness ==
  /\ ReadAgainstOther
  /\ ea = Read(Uab)
  /\ eb = ConcreteEffect(<<EffectComponent("update", Qc)>>)
  /\ ures.ok /\ Len(ures.value) = 3

\* C2, as claimed: no binding of a substitution returned by a successful
\* unify maps its name to a value in which that name occurs.
C2_NoBindingContainsItsName ==
  (UnifyDone /\ ures.ok) =>
    \A b \in Bindings(ures):
      IF b.kind = "effect"
      THEN Name("effect", b.name) \notin Range(effectNames(b.value))
      ELSE Name("variable", b.name) \notin Range(variablesNames(b.value))

\* C3, as claimed (first part): unify(a, b) succeeds iff unify(b, a) does.
C3_SuccessIsSymmetric == UnifyDone => (ures.ok <=> unify(eb, ea).ok)

\* the value a substitution gives to a quantified name
EffectValue(subs, n) == applySubstitution(subs, QuantifiedEffect(n))
VariablesValue(subs, n) ==
  flattenUnions(applySubstitutionToVariables(subs, QuantifiedVariables(n)))

SharedNames(a, b) == Range(effectNames(a)) \cap Range(effectNames(b))

\* C3, as claimed (second part): when both succeed, the two substitutions
\* give the same value to every quantified name that occurs in both effects.
C3_SubstitutionsAgree ==
  UnifyDone =>
    LET back == unify(eb, ea)
    IN  (ures.ok /\ back.ok) =>
          \A n \in SharedNames(ea, eb):
            IF n.kind = "effect"
            THEN EffectValue(ures.value, n.name) = EffectValue(back.value, n.name)
            ELSE VariablesValue(ures.value, n.name) = VariablesValue(back.value, n.name)

\* C3, as claimed, in the case the claim calls out: arrows with different
\* numbers of parameters, for which tryToUnpack swaps the parameter lists.
C3_SuccessIsSymmetricWhenUnpacking ==
  (UnifyDone /\ ea.kind = "arrow" /\ eb.kind = "arrow"
     /\ Len(ea.params) # Len(eb.params))
    => (ures.ok <=> unify(eb, ea).ok)

BindDone == phase = "done" /\ op \in {"bindEffect", "bindVariables"}

\* the quantified names of an effect, by level
RECURSIVE EffectLevelNames(_)
EffectLevelNames(e) ==
  CASE e.kind = "concrete" -> {}
    [] e.kind = "quantified" -> {e.name}
    [] e.kind = "arrow" ->
         UNION {EffectLevelNames(p) : p \in Range(e.params)} \cup EffectLevelNames(e.result)

RECURSIVE VariablesLevelNames(_)
VariablesLevelNames(e) ==
  CASE e.kind = "concrete" ->
         UNION {Range(quantifiedIn(c.variables)) : c \in Range(e.components)}
    [] e.kind = "quantified" -> {}
    [] e.kind = "arrow" ->
         UNION {VariablesLevelNames(p) : p \in Range(e.params)}
           \cup VariablesLevelNames(e.result)

\* C8, as claimed: bind fails with a cyclical binding whenever the name is a
\* quantified name occurring anywhere in the value, at either level, and the
\* value is not the quantified variable itself; otherwise it returns the
\* singleton substitution.
C8_BindFailsOnAnyOccurrence ==
  BindDone =>
    LET occurs == IF op = "bindEffect"
                  THEN bname \in EffectLevelNames(ea) \cup VariablesLevelNames(ea)
                  ELSE bname \in Range(quantifiedIn(va))
        itself == IF op = "bindEffect"
                  THEN ea = QuantifiedEffect(bname)
                  ELSE va = QuantifiedVariables(bname)
        single == IF op = "bindEffect"
                  THEN Binding("effect", bname, ea)
                  ELSE Binding("variable", bname, va)
    IN  ures = IF occurs /\ ~itself THEN Left(cyclicalBinding) ELSE Right(<<single>>)

\* C8, amended: bindEffect fails with a cyclical binding iff the name occurs
\* in the value as an effect-level quantified name, and bindVariables iff it
\* occurs as a variables-level quantified name, in both cases also when the
\* value is the quantified variable itself; otherwise the result is the
\* singleton substitution.
C8_BindFailsOnSameLevelOccurrence ==
  BindDone =>
    IF op = "bindEffect"
    THEN ures = IF bname \in EffectLevelNames(ea)
                THEN Left(cyclicalBinding)
                ELSE Right(<<Binding("effect", bname, ea)>>)
    ELSE ures = IF bname \in Range(quantifiedIn(va))
                THEN Left(cyclicalBinding)
                ELSE Right(<<Binding("variable", bname, va)>>)

C8_Witness ==
  /\ BindDone /\ op = "bindEffect"
  /\ bname = <<"a">>
  /\ ea = Read(Uax)
  /\ ures = Right(<<Binding("effect", bname, ea)>>)

\* C9: effects whose simplified forms print the same unify with the empty
\* substitution, also where binding the one to the other would be refused.
C9_EqualPrintsGiveEmpty ==
  (UnifyDone /\ effectToString(simplify(ea)) = effectToString(simplify(eb)))
    => ures = Right(<<>>)

C9_Witness ==
  /\ UnifyDone
  /\ ea # eb
  /\ ea.kind = "concrete"
  /\ effectToString(simplify(ea)) = effectToString(simplify(eb))
  /\ ures = Right(<<>>)

\* unify was handed a concrete effect u with an Update component and a
\* concrete effect t with a Temporal component
UpdateFacesTemporal(u, t) ==
  /\ UnifyDone
  /\ u.kind = "concrete" /\ t.kind = "concrete"
  /\ HasKind(simplify(u), "update") /\ HasKind(simplify(t), "temporal")

\* the quantified names of the components of e of a kind other than k
NamesOutsideKind(e, k) ==
  UNION {Range(quantifiedIn(c.variables)) :
           c \in {c \in Range(e.components) : c.kind # k}}

TemporalIsNullified(u, t) ==
  LET vt == VariablesOfKind(t, "temporal")
      vu == VariablesOfKind(u, "update")
  IN  \* a Temporal set holding a state variable makes unify fail
      /\ stateVariablesIn(vt) # <<>> => ~ures.ok
      \* a quantified Temporal set is given the empty variables
      /\ (ures.ok /\ vt.kind = "quantified") =>
           /\ \E b \in Bindings(ures): b.kind = "variable" /\ b.name = vt.name
           /\ VariablesValue(ures.value, vt.name) = emptyVariables
      \* the Update set is left alone where nothing else constrains it: the
      \* other effect has the same Update set and its names occur nowhere else
      /\ (ures.ok /\ HasKind(simplify(t), "update")
            /\ VariablesOfKind(t, "update") = vu) =>
           \A b \in Bindings(ures):
             b.name \in Range(quantifiedIn(vu)) =>
               b.name \in NamesOutsideKind(u, "update") \cup NamesOutsideKind(t, "update")

\* C10, as claimed: an Update component facing a Temporal component has the
\* Temporal variables unified with the empty variables (a quantified set is
\* bound to them, a set holding state variables makes unify fail), and the
\* Update variables are not constrained by the pair.
C10_UpdateNullifiesTemporal ==
  /\ UpdateFacesTemporal(ea, eb) => TemporalIsNullified(ea, eb)
  /\ UpdateFacesTemporal(eb, ea) => TemporalIsNullified(eb, ea)

DifferentPrints == effectToString(simplify(ea)) # effectToString(simplify(eb))

\* C10, amended: the same, unless the two simplified effects print the same,
\* in which case unify returns the empty substitution at once.
C10_UpdateNullifiesTemporalUnlessEqual ==
  /\ (UpdateFacesTemporal(ea, eb) /\ DifferentPrints) => TemporalIsNullified(ea, eb)
  /\ (UpdateFacesTemporal(eb, ea) /\ DifferentPrints) => TemporalIsNullified(eb, ea)

C10_Witness ==
  /\ UpdateFacesTemporal(ea, eb) /\ DifferentPrints
  /\ ea = ConcreteEffect(<<EffectComponent("update", Qa)>>)
  /\ eb = ConcreteEffect(<<EffectComponent("update", Qa), EffectComponent("temporal", Qb)>>)
  /\ ures = Right(<<Binding("variable", <<"b">>, emptyVariables)>>)

-----------------------------------------------------------------------------
(* Properties of the inferrer *)

visit(st, table, ev) ==
  CASE ev.handler = "enterExpr" -> enterExpr(st, ev.node)
    [] ev.handler = "exitName" -> exitName(st, table, ev.node)
    [] ev.handler = "exitApp" -> exitApp(st, table, ev.node)
    [] ev.handler = "exitLiteral" -> exitLiteral(st, ev.node)
    [] ev.handler = "exitOpDef" -> exitOpDef(st, ev.node)
    [] ev.handler = "exitLet" -> exitLet(st, ev.node)
    [] ev.handler = "exitLambda" -> exitLambda(st, table, ev.node)

\* the fields of a new inferrer after the traversal of the module m
inferEffects(m) ==
  FoldLeft(LAMBDA st, ev: IF st.thrown THEN st ELSE visit(st, lookupTable(m), ev),
           InferrerState(EmptyMap, EmptyMap, <<>>, 0, NoLocation, FALSE),
           walkModule(m))

Expressions == Range(moduleExpressions(module))

Recorded(id) == id \in DOMAIN effects \/ id \in DOMAIN errors

\* the position of the exit callback of an expression in the traversal
exitIndex(e) ==
  CHOOSE i \in 1..Len(events):
    events[i].node.id = e.id /\ events[i].handler # "enterExpr"

Exited(e) == exitIndex(e) < pc

NotFoundNames ==
  {e \in Expressions:
     e.kind = "name" /\ lookupValue(currentTable, e.name, e.id).kind = "notFound"}

\* a definition is free of errors, and of the other definitions, when the
\* inference of the module that has this definition only records no error
ErrorFreeAlone(d) ==
  Let1(inferEffects(Declarations \o <<d>>),
       LAMBDA st: ~st.thrown /\ DOMAIN st.errors = {})

\* C5, as claimed: every unresolved name of the module has its error after
\* the run, and every expression of a definition that is free of errors on
\* its own has its scheme, whatever the other definitions are.
C5_IndependentErrorsAreAllRecorded ==
  Returned =>
    /\ \A e \in NotFoundNames: e.id \in DOMAIN errors
    /\ \A k \in (Len(Declarations) + 1)..Len(module):
         ErrorFreeAlone(module[k]) =>
           \A e \in Range(expressionsOf(module[k].expr)): e.id \in DOMAIN effects

\* C6, as claimed: a scheme stored for an id is never replaced by another.
C6_SchemesAreWrittenOnce ==
  [][\A id \in DOMAIN effects: id \in DOMAIN effects' /\ effects'[id] = effects[id]]_allvars

\* C6, amended: an id never leaves the result map, and the scheme stored for
\* it is replaced by another only by exitApp, for an argument of the
\* application it is visiting.
C6_OnlyExitAppRewritesItsArguments ==
  [][\A id \in DOMAIN effects:
       /\ id \in DOMAIN effects'
       /\ effects'[id] # effects[id] =>
            /\ Visiting("exitApp")
            /\ \E i \in 1..Len(events[pc].node.args): events[pc].node.args[i].id = id]_allvars

\* an application has been inferred and the scheme of its argument, the name
\* of a lambda parameter, is no longer the variable that exitName stored
C6_Witness ==
  \E e \in Expressions:
    /\ e.kind = "app" /\ Exited(e) /\ e.id \in DOMAIN effects
    /\ \E i \in 1..Len(e.args):
         /\ e.args[i].kind = "name"
         /\ lookupValue(currentTable, e.args[i].name, e.args[i].id).kind = "param"
         /\ e.args[i].id \in DOMAIN effects
         /\ effects[e.args[i].id].effect.kind # "quantified"

\* exitApp is about to run, the signature and the instances of the arguments
\* are there, and the unification of the signature with the arrow fails
UnificationFails ==
  /\ Visiting("exitApp") /\ DOMAIN errors = {}
  /\ Let1(appInputs(Inferrer, currentTable, events[pc].node),
          LAMBDA inputs:
            /\ ~inputs.thrown /\ inputs.signature.ok /\ inputs.paramsResult.ok
            /\ ~appSubstitution(inputs.paramsResult, inputs.resultEffect,
                                inputs.signature.value).ok)

\* C7: when the unification fails in exitApp, the application gets an error
\* and no scheme, and the running substitution and the schemes of the
\* arguments stay as they were.
C7_FailedUnificationChangesNothingElse ==
  [][UnificationFails =>
       /\ events[pc].node.id \in DOMAIN errors'
       /\ events[pc].node.id \notin DOMAIN effects'
       /\ substitutions' = substitutions
       /\ \A i \in 1..Len(events[pc].node.args):
            /\ events[pc].node.args[i].id \in DOMAIN effects'
            /\ effects'[events[pc].node.args[i].id] = effects[events[pc].node.args[i].id]]_allvars

\* an application whose unification failed: its arguments have schemes, it
\* has an error that is not the error of a missing signature, and no scheme
C7_Witness ==
  \E e \in Expressions:
    /\ e.kind = "app" /\ Exited(e)
    /\ e.id \in DOMAIN errors /\ e.id \notin DOMAIN effects
    /\ errors[e.id].children # <<"Signature not found for name">>
    /\ substitutions # <<>>
    /\ \A i \in 1..Len(e.args): e.args[i].id \in DOMAIN effects

-----------------------------------------------------------------------------
(* Properties of the unifier: unpacking *)

\* unify was called on an arrow of one parameter and an arrow of two or more
UnpackCase ==
  /\ UnifyDone /\ ea.kind = "arrow" /\ eb.kind = "arrow"
  /\ Len(ea.params) = 1 /\ Len(eb.params) >= 2

\* the effect that tryToUnpack puts in the place of the parameters of eb
Unpacked == tryToUnpack(simplify(ea).params, simplify(eb).params).value[2][1]

\* C11, as claimed: no parameter of the N-ary arrow is left out of the
\* combined effect (every name of every parameter is in it), and a
\* substitution that unify returns makes the single parameter of the other
\* arrow print as the combined effect.
C11_UnpackingCombinesEveryParameter ==
  UnpackCase =>
    /\ \A i \in 1..Len(eb.params):
         Range(effectNames(simplify(eb).params[i])) \subseteq Range(effectNames(Unpacked))
    /\ ures.ok =>
         effectToString(applySubstitution(ures.value, ea.params[1]))
           = effectToString(applySubstitution(ures.value, Unpacked))

-----------------------------------------------------------------------------
(* Properties of two runs *)

EnclosingIds(e) ==
  {c.id : c \in {c \in Expressions: c.id # e.id /\ e.id \in idsOf(c)}}
  \cup {c.opdef.id : c \in {c \in Expressions: c.kind = "let" /\ e.id \in idsOf(c.opdef.expr)}}
  \cup {module[k].id : k \in {k \in 1..Len(module):
                                module[k].kind = "def" /\ e.id \in idsOf(module[k].expr)}}

\* C13, as claimed: once a name that the lookup table does not resolve has
\* been visited, the errors map has "Couldn't find <n> in the lookup table"
\* at the id of the name, the name has no scheme, and nothing that encloses
\* the name has a scheme or an error.
C13_UnresolvedNameHasItsErrorAlone ==
  \A e \in NotFoundNames:
    Exited(e) =>
      /\ e.id \in DOMAIN errors
      /\ e.id \in DOMAIN errors =>
           errors[e.id].children = <<"Couldn't find " \o e.name \o " in the lookup table">>
      /\ e.id \notin DOMAIN effects
      /\ \A id \in EnclosingIds(e): ~Recorded(id)


\* the names of the module that the lookup table resolves to a binding of
\* the kind k
NamesOfKind(k) ==
  {e \in Expressions:
     e.kind = "name" /\ lookupValue(currentTable, e.name, e.id).kind = k}

\* the scheme that the claim gives to a name by the kind of its binding
SchemeByKind(e, scheme) ==
  Let1(lookupValue(currentTable, e.name, e.id),
       LAMBDA def:
         /\ scheme.effectVariables = <<>> /\ scheme.entityVariables = <<>>
         /\ def.kind = "var" =>
              /\ scheme.effect.kind = "concrete" /\ Len(scheme.effect.components) = 1
              /\ scheme.effect.components[1].kind = "read"
              /\ scheme.effect.components[1].variables.kind = "concrete"
              /\ MapSeq(LAMBDA v: v.name, scheme.effect.components[1].variables.vars)
                   = <<e.name>>
         /\ def.kind = "const" =>
              scheme.effect.kind = "concrete" /\ scheme.effect.components = <<>>
         /\ def.kind = "param" =>
              /\ scheme.effect.kind = "quantified"
              /\ scheme.effect.name = <<"e_" \o e.name \o "_" \o ToString(def.reference)>>)

\* C14, as claimed: the scheme that the effects map has for a name bound to
\* a state variable, a constant or a lambda parameter is the scheme of its
\* kind: Read over the state variable, the pure effect, the variable
\* e_<n>_<defining id>, with no quantified names.
C14_RecordedSchemeIsTheSchemeOfTheKind ==
  \A e \in NamesOfKind("var") \cup NamesOfKind("const") \cup NamesOfKind("param"):
    e.id \in DOMAIN effects => SchemeByKind(e, effects[e.id])

\* C14, amended: the scheme that a step stores for a name that had none is
\* the scheme of its kind, and the scheme of a state variable or of a
\* constant is the scheme of its kind for the rest of the run.
C14_ExitNameRecordsTheSchemeOfTheKind ==
  [][/\ \A e \in NamesOfKind("var") \cup NamesOfKind("const") \cup NamesOfKind("param"):
          (e.id \notin DOMAIN effects /\ e.id \in DOMAIN effects') =>
            SchemeByKind(e, effects'[e.id])
     /\ \A e \in NamesOfKind("var") \cup NamesOfKind("const"):
          e.id \in DOMAIN effects' => SchemeByKind(e, effects'[e.id])]_allvars

\* a run has returned with schemes for a state variable, for a constant used
\* as an argument, and for a parameter whose scheme exitApp has stored again
C14_Witness ==
  /\ Returned
  /\ \E v \in NamesOfKind("var"), c \in NamesOfKind("const"), p \in NamesOfKind("param"):
       /\ v.id \in DOMAIN effects /\ c.id \in DOMAIN effects /\ p.id \in DOMAIN effects
       /\ ~SchemeByKind(p, effects[p.id])


-----------------------------------------------------------------------------
(* Properties of the unifier: kinds that one concrete effect lacks *)

\* the components of the simplified effect `mine` whose kind the simplified
\* effect `other` has no component of
MissingIn(mine, other) ==
  {c \in Range(simplify(mine).components):
     \A o \in Range(simplify(other).components): o.kind # c.kind}

\* C20: after unify of two concrete effects, for every component whose kind
\* the other effect lacks: if its variables are a quantified name and unify
\* succeeded, the returned substitution binds the name to the empty set of
\* state variables; if its variables are state variables, unify failed.
C20_MissingKindsAreNullified ==
  (UnifyDone /\ ea.kind = "concrete" /\ eb.kind = "concrete") =>
    \A c \in MissingIn(ea, eb) \cup MissingIn(eb, ea):
      /\ (c.variables.kind = "quantified" /\ ures.ok) =>
           Contains(ures.value, Binding("variable", c.variables.name, emptyVariables))
      /\ (c.variables.kind = "concrete" /\ c.variables.vars # <<>>) => ~ures.ok

\* unify has succeeded on two concrete effects that share a kind, one of
\* which has a component of a further kind over a quantified name
C20_Witness ==
  /\ UnifyDone /\ ea.kind = "concrete" /\ eb.kind = "concrete" /\ ures.ok
  /\ \E c \in MissingIn(ea, eb) \cup MissingIn(eb, ea): c.variables.kind = "quantified"
  /\ \E c \in Range(ea.components), o \in Range(eb.components): c.kind = o.kind


-----------------------------------------------------------------------------
(* The evaluator harness: one call of the closure that lazyBuiltinLambda    *)
(* returns for an operator, on arguments and a context drawn in Init        *)

LazyOps == {"and", "or", "implies", "actionAny", "actionAll", "then"}

InitEval ==
  /\ lphase = "start"
  /\ lres = NoValue
  /\ lop \in LazyOps
  /\ largs \in Arities(lop)
  /\ entry \in EntryContexts
  /\ context = entry
  /\ UnifierIdle
  /\ InferrerIdle

Returns(e) ==
  /\ context' = e.ctx
  /\ lres' = e.result
  /\ lphase' = "done"
  /\ UNCHANGED <<lop, largs, entry, uvars, ivars, rvars>>

Calling(o) == lphase = "start" /\ lop = o

EvalAnd == Calling("and") /\ Returns(lazyAnd(context, largs))

EvalOr == Calling("or") /\ Returns(lazyOr(context, largs))

EvalImplies == Calling("implies") /\ Returns(lazyImplies(context, largs))

EvalActionAny ==
  /\ Calling("actionAny")
  /\ \E choice \in 0..(MaxArgs - 1):
       /\ \/ anyRandBound(context, largs) < 2 /\ choice = 0
          \/ anyRandBound(context, largs) >= 2
             /\ choice \in randRange(anyRandBound(context, largs))
       /\ Returns(lazyActionAny(context, largs, choice))

EvalActionAll == Calling("actionAll") /\ Returns(lazyActionAll(context, largs))

EvalThen == Calling("then") /\ Returns(lazyThen(context, largs))

NextEval ==
  \/ EvalAnd
  \/ EvalOr
  \/ EvalImplies
  \/ EvalActionAny
  \/ EvalActionAll
  \/ EvalThen

SpecEval == InitEval /\ [][NextEval]_allvars

\* the call of the operator o has returned
Called(o) == lphase = "done" /\ lop = o

\* the calls of argument closures that the operator made, in their order
Log == context.log


-----------------------------------------------------------------------------
(* Properties of the lazy operators *)

\* the arguments were called from left to right: the calls are those of the
\* first Len(Log) arguments, in their order
LeftToRight == \A j \in 1..Len(Log): Log[j].index = j

\* the operator stopped at the first call whose result is not `continues`:
\* every call but the last returned it, and if the last one returned it as
\* well then every argument was called
StopsUnless(continues) ==
  /\ \A j \in 1..Len(Log) - 1: Log[j].result = continues
  /\ (Len(Log) = 0 \/ Log[Len(Log)].result = continues) => Len(Log) = Len(largs)

\* C15: and, or and implies call their arguments from left to right; `and`
\* calls no argument after the first that is not true, `or` none after the
\* first that is not false, implies calls its second argument only if the
\* first is true; the result is that of the last call, an error included,
\* and it is the neutral value where no call decided (true for `and` without
\* arguments and for implies with a false first argument, false for `or`
\* without arguments).
C15_LazyBooleansShortCircuit ==
  /\ Called("and") =>
       /\ LeftToRight /\ StopsUnless(Right(TRUE))
       /\ lres = IF Len(Log) = 0 THEN Right(TRUE) ELSE Log[Len(Log)].result
  /\ Called("or") =>
       /\ LeftToRight /\ StopsUnless(Right(FALSE))
       /\ lres = IF Len(Log) = 0 THEN Right(FALSE) ELSE Log[Len(Log)].result
  /\ Called("implies") =>
       /\ LeftToRight /\ Len(Log) >= 1 /\ StopsUnless(Right(TRUE))
       /\ lres = IF Len(Log) = 1 /\ Log[1].result = Right(FALSE) THEN Right(TRUE)
                 ELSE Log[Len(Log)].result

\* `and` has returned the error of its first argument without calling the
\* second, which would have assigned a next value
C15_Witness ==
  /\ Called("and") /\ Len(largs) = 2 /\ Len(Log) = 1
  /\ ~lres.ok /\ lres = Log[1].result
  /\ largs[2].kind = "assign"

\* the next values and the result that the call j of the log produced
TrueCalls == {j \in 1..Len(Log): Log[j].result = Right(TRUE)}
ErrorCalls == {j \in 1..Len(Log): ~Log[j].result.ok}

\* every argument of actionAny was called once, in order, from the next
\* values of the entry
EveryOptionFromTheSnapshot ==
  /\ LeftToRight /\ Len(Log) = Len(largs)
  /\ \A j \in 1..Len(Log): Log[j].before = entry.nextVars

\* C16, as claimed: actionAny calls every argument from the next values of
\* the entry; if an argument returned true the result is true and the next
\* values are those that one of the true arguments left; if none returned
\* true the result is false and the next values are those of the entry.
C16_AnyReturnsOneTrueSuccessor ==
  Called("actionAny") =>
    /\ EveryOptionFromTheSnapshot
    /\ TrueCalls # {} =>
         lres = Right(TRUE) /\ \E j \in TrueCalls: context.nextVars = Log[j].after
    /\ TrueCalls = {} =>
         lres = Right(FALSE) /\ context.nextVars = entry.nextVars

\* C16, amended: actionAny calls every argument from the next values of the
\* entry; if an argument returned an error, the result is the error of the
\* first such argument and the next values are those of the entry; otherwise
\* the result and the next values are as claimed.
C16_AnyReturnsOneTrueSuccessorOrTheFirstError ==
  Called("actionAny") =>
    /\ EveryOptionFromTheSnapshot
    /\ ErrorCalls # {} =>
         /\ \E j \in ErrorCalls:
              lres = Log[j].result /\ \A k \in ErrorCalls: j <= k
         /\ context.nextVars = entry.nextVars
    /\ (ErrorCalls = {} /\ TrueCalls # {}) =>
         lres = Right(TRUE) /\ \E j \in TrueCalls: context.nextVars = Log[j].after
    /\ (ErrorCalls = {} /\ TrueCalls = {}) =>
         lres = Right(FALSE) /\ context.nextVars = entry.nextVars

\* actionAny has returned true with the next values of its second argument,
\* after two true arguments that assigned different variables
C16_Witness ==
  /\ Called("actionAny") /\ Len(largs) = 2 /\ TrueCalls = {1, 2}
  /\ Log[1].after # Log[2].after
  /\ lres = Right(TRUE) /\ context.nextVars = Log[2].after

\* C17: actionAll calls its arguments in order, each from the next values
\* that the one before it left; it calls no argument after one that is not
\* true; if every argument returned true the result is true and the next
\* values are those that the last one left; otherwise the next values are
\* those of the entry and the result is false, or the error of the argument
\* that returned one.
C17_AllCommitsOrRestores ==
  Called("actionAll") =>
    /\ LeftToRight /\ StopsUnless(Right(TRUE))
    /\ \A j \in 1..Len(Log):
         Log[j].before = IF j = 1 THEN entry.nextVars ELSE Log[j - 1].after
    /\ IF Len(Log) = 0 \/ Log[Len(Log)].result = Right(TRUE)
       THEN /\ lres = Right(TRUE)
            /\ context.nextVars = IF Len(Log) = 0 THEN entry.nextVars
                                  ELSE Log[Len(Log)].after
       ELSE /\ lres = Log[Len(Log)].result
            /\ context.nextVars = entry.nextVars

\* actionAll has returned false and has restored the next values, after a
\* first argument that assigned x and a second one that was false
C17_Witness ==
  /\ Called("actionAll") /\ Len(Log) = 2
  /\ Log[1].after # entry.nextVars
  /\ Log[2].before = Log[1].after /\ Log[2].result = Right(FALSE)
  /\ lres = Right(FALSE) /\ context.nextVars = entry.nextVars

\* C18: then(A, B) calls A first; if A returned true, the state is shifted
\* once, B is called after the shift and the result is B's; if A returned
\* false the result is the error QNT513, if A returned an error the result
\* is that error, and in both cases there is no shift and B is not called.
C18_ThenShiftsOnceBetweenItsArguments ==
  Called("then") =>
    /\ LeftToRight /\ Len(Log) >= 1
    /\ Log[1].shifts = entry.shifts
    /\ IF Log[1].result = Right(TRUE)
       THEN /\ Len(Log) = 2
            /\ Log[2].shifts = entry.shifts + 1
            /\ context.shifts = entry.shifts + 1
            /\ lres = Log[2].result
       ELSE /\ Len(Log) = 1
            /\ context.shifts = entry.shifts
            /\ lres = IF Log[1].result.ok THEN Left(QuintError("QNT513"))
                      ELSE Log[1].result

\* then has returned true: its first argument assigned the next value of x
\* and its second argument found it as the current value after the shift
C18_Witness ==
  /\ Called("then") /\ Len(Log) = 2
  /\ largs[1].kind = "assign" /\ largs[2].kind = "varIs"
  /\ entry.vars[largs[2].v] # largs[2].k
  /\ context.shifts = entry.shifts + 1
  /\ lres = Right(TRUE)


-----------------------------------------------------------------------------
(* Properties of the inferrer: the running substitution *)

\* the ids whose scheme a step stores: those that get a scheme, and those
\* whose scheme is replaced
Inserted ==
  {id \in DOMAIN effects': id \notin DOMAIN effects \/ effects'[id] # effects[id]}

\* C21, as claimed: the effect of every scheme that a step stores in the
\* effects map is fully substituted: applying the substitutions of the
\* inferrer after the step to it gives an effect that prints the same.
C21_InsertedSchemesAreFullySubstituted ==
  [][\A id \in Inserted:
       effectToString(applySubstitution(substitutions', effects'[id].effect))
         = effectToString(effects'[id].effect)]_allvars


-----------------------------------------------------------------------------
(* Properties of the unifier: parameter lists of different lengths *)

\* unify was applied to two arrows whose parameter lists differ in length
DifferentLengths ==
  /\ UnifyDone /\ ea.kind = "arrow" /\ eb.kind = "arrow"
  /\ Len(ea.params) # Len(eb.params)

\* the shorter and the longer of the two parameter lists
Shorter == IF Len(ea.params) < Len(eb.params) THEN ea.params ELSE eb.params
Longer == IF Len(ea.params) < Len(eb.params) THEN eb.params ELSE ea.params

ArityError ==
  Left(<<"Expected " \o ToString(Len(Longer)) \o " arguments, got "
           \o ToString(Len(Shorter))>>)

\* C22, as claimed: for parameter lists of different lengths, unification
\* succeeds only if the shorter list is one concrete effect, and in every
\* other case it fails with the error "Expected N arguments, got M".
C22_UnpacksOnlyIntoOneConcreteEffect ==
  DifferentLengths =>
    /\ ures.ok => Len(Shorter) = 1 /\ Shorter[1].kind = "concrete"
    /\ ~(Len(Shorter) = 1 /\ Shorter[1].kind = "concrete") => ures = ArityError


-----------------------------------------------------------------------------
(* Properties of the unifier: arrows over a set of variables *)

\* (Read[a, b]) => Read[a, b] and (Read[c]) => Read[c]
ReadsTwo == ArrowEffect(<<Read(Uab)>>, Read(Uab))
ReadsOne == ArrowEffect(<<Read(Qc)>>, Read(Qc))

\* unify was applied to the two arrows, in one order or the other
ReadsTwoAgainstOne ==
  /\ UnifyDone
  /\ \/ ea = ReadsTwo /\ eb = ReadsOne
     \/ ea = ReadsOne /\ eb = ReadsTwo

\* C23: unify of (Read[a, b]) => Read[a, b] with (Read[c]) => Read[c]
\* succeeds; the returned substitution makes the two arrows print the same,
\* and the only name left in them is one variable that stands for a, b and
\* c: the hashed variable of one of the two arrows.
C23_HashedVariablesUnify ==
  ReadsTwoAgainstOne =>
    /\ ures.ok
    /\ ures.ok =>
         /\ effectToString(applySubstitution(ures.value, ea))
              = effectToString(applySubstitution(ures.value, eb))
         /\ \E v \in {hashVariables(Uab), hashVariables(Qc)}:
              {n.name : n \in Range(effectNames(applySubstitution(ures.value, ea)))}
                = {v.name}

\* unify has succeeded on the two arrows, the one over a and b first, and
\* the substitution it returned binds a, b and the hashed variable of a, b
C23_Witness ==
  /\ UnifyDone /\ ea = ReadsTwo /\ eb = ReadsOne /\ ures.ok
  /\ \A n \in {<<"a">>, <<"b">>, hashVariables(Uab).name}:
       \E i \in 1..Len(ures.value): ures.value[i].name = n


-----------------------------------------------------------------------------
(* Properties of unifyVariables *)

UnifyVariablesDone == phase = "done" /\ op = "unifyVariables"

\* the two variable-sets as unifyVariables compares them
V1 == flattenUnions(va)
V2 == flattenUnions(vb)

NamesOf(v) == {s.name : s \in Range(v.vars)}

\* C24: unifyVariables of two concrete variable-sets returns the empty
\* substitution exactly when the two have the same set of names, whatever
\* the reference ids, the order and the repetitions are; otherwise it fails
\* with the error that names both sets; it returns no other substitution.
C24_ConcreteSetsUnifyByNames ==
  (UnifyVariablesDone /\ va.kind = "concrete" /\ vb.kind = "concrete") =>
    /\ ures.ok <=> NamesOf(va) = NamesOf(vb)
    /\ ures.ok => ures.value = <<>>
    /\ ~ures.ok =>
         ures.error = <<"Expected variables [" \o namesToString(va.vars) \o "] and ["
                          \o namesToString(vb.vars) \o "] to be the same">>

\* unifyVariables has returned the empty substitution for [y, x] and [x, y],
\* whose x have different reference ids
C24_Witness ==
  /\ UnifyVariablesDone /\ va = YX /\ vb = XY
  /\ va.vars[2].reference # vb.vars[1].reference
  /\ ures = Right(<<>>)

BothUnions == UnifyVariablesDone /\ V1.kind = "union" /\ V2.kind = "union"

UnionsNotImplemented == Left(<<"Unification for unions of variables is not implemented">>)

\* C25, as claimed: unifyVariables of two variable-sets that are both unions
\* after flattening fails with the error that unification of unions is not
\* implemented.
C25_TwoUnionsAlwaysFail == BothUnions => ures = UnionsNotImplemented

\* C25, amended: unifyVariables of two variable-sets that are both unions
\* after flattening returns the empty substitution if the two flattened
\* unions are the same value, and fails with the error that unification of
\* unions is not implemented otherwise.
C25_TwoUnionsFailUnlessIdentical ==
  BothUnions => ures = IF V1 = V2 THEN Right(<<>>) ELSE UnionsNotImplemented

\* unifyVariables has returned the empty substitution for [a, b] and [a, b],
\* which are unions of two names
C25_Witness ==
  /\ BothUnions /\ Len(V1.variables) = 2 /\ V1 = V2
  /\ ures = Right(<<>>)

\* unifyVariables was applied to a union and to a concrete variable-set, in
\* one order or the other
UnionAgainstConcrete ==
  /\ UnifyVariablesDone
  /\ \/ V1.kind = "union" /\ V2.kind = "concrete"
     \/ V1.kind = "concrete" /\ V2.kind = "union"

TheUnion == IF V1.kind = "union" THEN V1 ELSE V2
TheConcrete == IF V1.kind = "union" THEN V2 ELSE V1

\* C26: unifyVariables of a union and a concrete variable-set succeeds
\* exactly when every concrete member of the union has the names of the
\* whole concrete set, and then returns, in the order of the members, one
\* binding of every quantified member to the whole concrete set.
C26_UnionMembersUnifyWithTheWholeSet ==
  UnionAgainstConcrete =>
    /\ ures.ok <=>
         \A m \in Range(TheUnion.variables):
           m.kind = "concrete" => NamesOf(m) = NamesOf(TheConcrete)
    /\ ures.ok =>
         ures.value =
           MapSeq(LAMBDA m: Binding("variable", m.name, TheConcrete),
                  SelectSeq(TheUnion.variables, LAMBDA m: m.kind = "quantified"))

\* unifyVariables has bound a and b to [x, y], for the union of a and b
\* against the state variables x and y
C26_Witness ==
  /\ UnionAgainstConcrete /\ va = Uab /\ vb = XY
  /\ ures = Right(<<Binding("variable", <<"a">>, XY), Binding("variable", <<"b">>, XY)>>)


-----------------------------------------------------------------------------
(* Properties of the inferrer: the running substitution *)

\* the names a substitution binds, with the kind of the binding
BoundNames(subs) == {<<b.kind, b.name>> : b \in Range(subs)}

\* the unifier exitApp obtains in the current state
AppUnifier ==
  Let1(appInputs(Inferrer, currentTable, events[pc].node),
       LAMBDA inputs:
         IF inputs.thrown \/ ~inputs.signature.ok THEN Left(<<>>)
         ELSE appSubstitution(inputs.paramsResult, inputs.resultEffect,
                              inputs.signature.value))

\* C27: in one inference run, every name the running substitution binds
\* before a visitor call is still bound after it, and the running
\* substitution changes only in exitApp, where it becomes the composition of
\* itself with the unifier of the signature and the application's arrow.
C27_RunningSubstitutionOnlyGrows ==
  [][/\ BoundNames(substitutions) \subseteq BoundNames(substitutions')
     /\ substitutions' # substitutions =>
          /\ Visiting("exitApp")
          /\ AppUnifier.ok
          /\ compose(substitutions, AppUnifier.value) = Right(substitutions')]_allvars

\* two applications have their schemes: the running substitution was
\* composed with the unifier of each of the two, and it binds the names of
\* both signatures' instances
C27_Witness ==
  \E e, f \in Expressions:
    /\ e.kind = "app" /\ Exited(e) /\ e.id \in DOMAIN effects
    /\ f.kind = "app" /\ Exited(f) /\ f.id \in DOMAIN effects /\ e.id < f.id
    /\ Cardinality(BoundNames(substitutions)) > 5


-----------------------------------------------------------------------------
(* Properties of the inferrer: the scheme of a lambda *)

\* exitLambda records a scheme for its lambda in this step
LambdaRecorded ==
  /\ Visiting("exitLambda")
  /\ events[pc].node.id \notin DOMAIN effects
  /\ events[pc].node.id \in DOMAIN effects'

\* the variable of the i-th parameter of a lambda, after the running
\* substitution
ParameterEffect(lambda, i) ==
  applySubstitution(substitutions,
                    QuantifiedEffect(paramName(lambda.params[i], lambda.expr.id)))

ParamsEffectNames(arrow) == UNION {EffectLevelNames(p) : p \in Range(arrow.params)}
ParamsVariablesNames(arrow) == UNION {VariablesLevelNames(p) : p \in Range(arrow.params)}

LambdaSchemeIs(lambda, scheme) ==
  /\ scheme.effect.kind = "arrow"
  /\ scheme.effect.params = [i \in 1..Len(lambda.params) |-> ParameterEffect(lambda, i)]
  /\ scheme.effect.result = effects[lambda.expr.id].effect
  /\ Range(scheme.effectVariables) = ParamsEffectNames(scheme.effect)
  /\ Range(scheme.entityVariables) = ParamsVariablesNames(scheme.effect)

\* C28: the scheme exitLambda records for a lambda is an arrow whose
\* parameters are the variables of the lambda's parameters after the running
\* substitution and whose result is the effect of the body, quantified over
\* exactly the effect names and the variables names that occur in the
\* arrow's parameters; a name that occurs only in the result is in neither
\* set.
C28_LambdaSchemeQuantifiesItsParameters ==
  [][LambdaRecorded => LambdaSchemeIs(events[pc].node, effects'[events[pc].node.id])]_allvars

\* a lambda has a scheme whose result is a quantified effect that is not
\* among the parameters and is not quantified, while the parameter is
C28_Witness ==
  \E e \in Expressions:
    /\ e.kind = "lambda" /\ Exited(e) /\ e.id \in DOMAIN effects
    /\ effects[e.id].effect.result.kind = "quantified"
    /\ effects[e.id].effect.result \notin Range(effects[e.id].effect.params)
    /\ effects[e.id].effect.result.name \notin Range(effects[e.id].effectVariables)
    /\ effects[e.id].effectVariables # <<>>


-----------------------------------------------------------------------------
(* Properties of the inferrer: operators without a result yet *)

\* the operator a name or an application refers to
OperatorOf(e) == IF e.kind = "app" THEN e.opcode ELSE e.name

\* exitName or exitApp is about to run, without errors so far, on an
\* expression whose operator is a definition of the module that has no
\* entry yet in the effects map or in the errors map
OperatorWithoutResult ==
  /\ (Visiting("exitName") \/ Visiting("exitApp")) /\ DOMAIN errors = {}
  /\ Let1(lookupValue(currentTable, OperatorOf(events[pc].node), events[pc].node.id),
          LAMBDA def:
            /\ def.kind \in {"val", "def"} /\ def.reference # NoId
            /\ def.reference \notin DOMAIN effects \cup DOMAIN errors)

\* C29: exitName and exitApp do not throw on an expression whose operator is
\* a definition of the module that has no result yet (a recursive call, a
\* reference to a later definition): they record an error at the id of the
\* expression and the run goes on.
C29_OperatorWithoutResultIsAnError ==
  [][OperatorWithoutResult =>
       ~thrown' /\ events[pc].node.id \in DOMAIN errors']_allvars


-----------------------------------------------------------------------------
(* Properties of the lazy built-ins: actionAny with an erroring argument *)

AnyWithAnError == Called("actionAny") /\ ErrorCalls # {}

FirstError == CHOOSE j \in ErrorCalls: \A k \in ErrorCalls: j <= k

\* C30: when an argument of actionAny returns an error, every argument was
\* still called, each from the next values of the entry; the result is the
\* error of the first argument that returned one, also when other arguments
\* returned true; ctx.rand is not called, so that the outcome is the same
\* whatever it would return; and the next values are those of the entry.
C30_AnyWithAnErrorReturnsTheFirstError ==
  AnyWithAnError =>
    /\ Len(Log) = Len(largs)
    /\ \A j \in 1..Len(Log): Log[j].index = j /\ Log[j].before = entry.nextVars
    /\ lres = Log[FirstError].result
    /\ anyRandBound(entry, largs) = 0
    /\ \A choice \in 0..(MaxArgs - 1):
         lazyActionAny(entry, largs, choice) = Evaluated(context, lres)
    /\ context.nextVars = entry.nextVars

\* actionAny has returned the error of its second argument with the next
\* values of the entry, after a first argument that returned true and
\* assigned a variable
C30_Witness ==
  /\ AnyWithAnError /\ Len(largs) = 2 /\ TrueCalls = {1} /\ ErrorCalls = {2}
  /\ Log[1].after # entry.nextVars
  /\ ~lres.ok /\ lres = Log[2].result
  /\ context.nextVars = entry.nextVars
====
